---- MODULE Spec2Model ----
(***************************************************************************)
(* A model of pv-data (penny-vault/pv-data): the subscription lifecycle    *)
(* (library/subscription.go), the persistence sink (library/summary.go,    *)
(* data/*.go), the run command and the provider fetch functions            *)
(* (cmd/run.go, provider/*.go) and polygon's asset reconciliation          *)
(* (provider/polygon.go).                                                  *)
(*                                                                         *)
(* The module holds several specifications over one set of variables:      *)
(*   SpecLifecycle  Save / ManagePartitions / Delete / Activate /          *)
(*                  Deactivate of one subscription, statement by statement *)
(*   SpecSink       SaveObservations draining the observation channel and  *)
(*                  the SaveDB upserts of the record kinds                 *)
(*   SpecRun        the run command: one Fetch after the other, each       *)
(*                  sending observations and its RunSummary, next to the   *)
(*                  SaveObservations goroutine                             *)
(*   SpecRecon      api.delistedAssets of polygon's Stock Tickers dataset  *)
(*                  against a database, a set of fetched assets and a      *)
(*                  listing of inactive tickers                            *)
(*   SpecFilter     api.filterAssetsByLastUpdated against a database and a *)
(*                  list of fetched assets                                 *)
(*   SpecWalk       the page requests of the Fetch functions: the rate     *)
(*                  limiter, the cursor loops, failed pages, cancellation  *)
(*                  and the RunSummary                                     *)
(*   SpecRunLive    SpecRun with weak fairness of its steps                *)
(*   SpecPage       the records of one response, entry by entry: market   *)
(*                  holidays, a page of tickers, a FRED series             *)
(*   SpecNames      provider.NewSubscription, ComputeTableNames and the    *)
(*                  subscribe command's Dataset and Save                   *)
(*   SpecLimiter    the rateLimit configuration and the limiter of a Fetch *)
(* Each specification leaves the variables of the other parts at their     *)
(* idle values.                                                            *)
(***************************************************************************)
EXTENDS Integers, Sequences, FiniteSets, TLC

VARIABLES
    \* ---- subscription lifecycle (library/subscription.go) ----
    year,       \* time.Now().Year()
    sub,        \* the in-memory Subscription: DataTypes, HealthCheckID
    db,         \* the committed database: data tables, partitions, subscriptions rows
    tx,         \* the open transaction's view of the database, or NoTx
    op,         \* the lifecycle method being executed
    pc,         \* its position
    idx,        \* its loop index
    monitor,    \* the healthchecks.io check of the subscription
    ret,        \* what the method returned
    hist,       \* bookkeeping about the method in progress (not program state)
    partYear,   \* the year of the last committed managePartitionsWithTransaction, or 0
    leftover,   \* a check of an earlier subscription exists whose row was never committed
    \* ---- observation channel and persistence sink (cmd/run.go, library/summary.go) ----
    outChan,        \* the buffered channel of *data.Observation
    closed,         \* close(outChan) has been called
    sinkPc,         \* position of the SaveObservations goroutine
    subscriptions,  \* the map of subscriptions SaveObservations loaded when it started
    tables,         \* the rows of every data table, by table name
    applied,        \* the last two SaveDB calls of the sink (not program state)
    pushed,         \* every observation sent on outChan, in order (not program state)
    received,       \* every observation the sink received, in order (not program state)
    \* ---- the run command and the Fetch in progress (cmd/run.go, provider/*.go) ----
    args,           \* the subscription IDs of the command line still to run
    runPc,          \* position of runCmd.Run
    fetch,          \* the locals of the Fetch call in progress
    exitChan,       \* the buffered channel of data.RunSummary
    fetches,        \* one entry per Fetch call: how it ended and what it sent (not program state)
    blockedSeen,    \* a send on outChan has waited for the sink (not program state)
    \* ---- polygon's reconciliation of delisted assets (provider/polygon.go) ----
    recon,          \* the locals of api.delistedAssets
    fetched,        \* its argument: the assets polygon lists as active
    listing,        \* polygon's listing of inactive tickers: the pages of every asset type
    now,            \* time.Now(), in days
    \* ---- polygon's choice of the assets to look up (provider/polygon.go) ----
    filter,         \* the argument and the locals of api.filterAssetsByLastUpdated
    \* ---- the page requests of a Fetch (provider/*.go) ----
    walk,           \* the locals of the Fetch, its caller's position, and bookkeeping
    server,         \* the provider's listing: its number of pages, or endless
    cancelled,      \* the context of the Fetch is cancelled
    \* ---- the records of one response (provider/polygon.go, the FRED provider) ----
    page,           \* the function that reads the response, its records and what it sent
    \* ---- names and rates computed from a subscription ----
    calc            \* the subscription given, and what was computed from it

lifeVars == <<year, sub, db, tx, op, pc, idx, monitor, ret, hist, partYear, leftover>>
sinkVars == <<outChan, closed, sinkPc, subscriptions, tables, applied, pushed, received>>

runVars == <<args, runPc, fetch, exitChan, fetches, blockedSeen>>

reconVars == <<recon, fetched, listing, now>>

filterVars == <<filter>>

walkVars == <<walk, server, cancelled>>

pageVars == <<page>>

calcVars == <<calc>>

vars == <<lifeVars, sinkVars, runVars, reconVars, filterVars, walkVars, pageVars, calcVars>>

\* the variables a part of the program does not touch
notLifeVars == <<sinkVars, runVars, reconVars, filterVars, walkVars, pageVars, calcVars>>
notSinkVars == <<lifeVars, runVars, reconVars, filterVars, walkVars, pageVars, calcVars>>
notRunVars == <<lifeVars, reconVars, filterVars, walkVars, pageVars, calcVars>>
notReconVars == <<lifeVars, runVars, filterVars, walkVars, pageVars, calcVars>>
notFilterVars == <<lifeVars, sinkVars, runVars, reconVars, walkVars, pageVars, calcVars>>
notWalkVars == <<lifeVars, sinkVars, runVars, reconVars, filterVars, pageVars, calcVars>>
notPageVars == <<lifeVars, sinkVars, runVars, reconVars, filterVars, walkVars, calcVars>>
notCalcVars == <<lifeVars, sinkVars, runVars, reconVars, filterVars, walkVars, pageVars>>

(***************************************************************************)
(* Bounds of the model                                                     *)
(***************************************************************************)
FirstYear == 2024
MaxYear == 2026
\* capacity of the observation channel in the model (1000 in cmd/run.go)
OutChanCap == 2
\* number of observations the providers of SpecSink send
MaxPush == 3
\* number of assets or pages a Fetch walks through, and of assets on a page
MaxItems == 1
\* the ceiling on the pages api.delistedAssets walks per asset type in the model
\* (maxQueries, 300 in provider/polygon.go); a listing has up to one page more
MaxQueries == 2
\* the most subscriptions saved
MaxSubscriptions == 2

\* the most characters of the rateLimit of a subscription's configuration
MaxConfigLen == 3

\* the most records of one response
MaxRecords == 2

\* the most assets with a database row that api.filterAssetsByLastUpdated selects
\* in the model (100 in provider/polygon.go)
MaxUpdates == 2
\* the ceiling on the pages api.assets walks per asset type in the model
\* (maxQueries, 1000 in provider/polygon.go)
MaxAssetQueries == 2

(***************************************************************************)
(* data/datatype.go                                                        *)
(***************************************************************************)
AssetKey == "asset-description"
EODKey == "eod"
MetricKey == "metric"
FundamentalsKey == "fundamental"
MarketHolidaysKey == "market-holidays"
RatingKey == "analyst-rating"
CustomKey == "custom"

\* DataType.IsPartitioned of the registry entry
IsPartitioned(dataTypeName) == dataTypeName \in {EODKey, MetricKey}

\* The DataTypes lists of the datasets a subscription can be made of
DatasetDataTypes ==
    { <<AssetKey>>, <<EODKey>>, <<MetricKey>>, <<RatingKey, CustomKey>> }

(***************************************************************************)
(* Dates and partition ranges.  A date is <<year, month, day>>; a range    *)
(* FOR VALUES FROM ('Start-01-01') TO ('End-01-01') holds the dates d with *)
(* Start-01-01 <= d < End-01-01.                                           *)
(***************************************************************************)
DateLE(a, b) ==
    \/ a[1] < b[1]
    \/ a[1] = b[1] /\ a[2] < b[2]
    \/ a[1] = b[1] /\ a[2] = b[2] /\ a[3] <= b[3]

DateLT(a, b) == DateLE(a, b) /\ a # b

Jan1(y) == <<y, 1, 1>>

InRange(d, part) == DateLE(Jan1(part.from), d) /\ DateLT(d, Jan1(part.to))

\* the fixed head of the dates list
LegacyRanges ==
    << [Start |-> 1900, End |-> 2000],
       [Start |-> 2000, End |-> 2005],
       [Start |-> 2005, End |-> 2010],
       [Start |-> 2010, End |-> 2015] >>

RECURSIVE BucketsFrom(_, _, _)
\* for ii := from; ii < limit; ii += width { dates = append(dates, {ii, ii+width}) }
BucketsFrom(ii, limit, width) ==
    IF ii < limit
    THEN <<[Start |-> ii, End |-> ii + width]>> \o BucketsFrom(ii + width, limit, width)
    ELSE <<>>

\* the dates list of managePartitionsWithTransaction in year y
CreateRanges(y) == LegacyRanges \o BucketsFrom(2015, y + 1, 5)

\* the dates list of PartitionTables in year y
ListRanges(y) == LegacyRanges \o BucketsFrom(2015, y + 1, 1)

(***************************************************************************)
(* Table names                                                             *)
(***************************************************************************)
\* Subscription.ComputeTableNames: one table name per data type
ComputeTableNames(dataTypes) == [i \in 1..Len(dataTypes) |-> <<"tbl", dataTypes[i]>>]

\* fmt.Sprintf("%s_%d_%d", dataTable, dt.Start, dt.End)
PartitionName(dataTable, dt) == <<dataTable, dt.Start, dt.End>>

Partition(dataTable, dt) ==
    [name |-> PartitionName(dataTable, dt), parent |-> dataTable,
     from |-> dt.Start, to |-> dt.End]

SeqToSet(s) == { s[i] : i \in 1..Len(s) }

RECURSIVE FlattenSeq(_)
FlattenSeq(ss) == IF ss = <<>> THEN <<>> ELSE Head(ss) \o FlattenSeq(Tail(ss))

\* Subscription.PartitionTables: the partition names of every partitioned data type
PartitionTables(s, y) ==
    FlattenSeq([i \in 1..Len(s.DataTypes) |->
        IF IsPartitioned(s.DataTypes[i])
        THEN [k \in 1..Len(ListRanges(y)) |->
                 PartitionName(s.DataTables[i], ListRanges(y)[k])]
        ELSE <<>>])

\* the partition names managePartitionsWithTransaction creates
CreatedPartitionNames(s, y) ==
    UNION { IF IsPartitioned(s.DataTypes[i])
            THEN { PartitionName(s.DataTables[i], CreateRanges(y)[k]) :
                       k \in 1..Len(CreateRanges(y)) }
            ELSE {} : i \in 1..Len(s.DataTypes) }

(***************************************************************************)
(* The database as the statements of subscription.go see it                *)
(***************************************************************************)
NoTx == [open |-> FALSE]
EmptyDB == [tables |-> {}, parts |-> {}, rows |-> {}]

OkRes(d) == [ok |-> TRUE, db |-> d]
ErrRes(d) == [ok |-> FALSE, db |-> d]

\* CREATE TABLE name (...): fails when the table exists
CreateTable(d, name) ==
    IF name \in d.tables THEN ErrRes(d)
    ELSE OkRes([d EXCEPT !.tables = @ \cup {name}])

CreatePartitionNoIfNotExists(d, part) ==
    IF \E p \in d.parts : p.name = part.name THEN ErrRes(d)
    ELSE IF part.parent \notin d.tables THEN ErrRes(d)
    ELSE OkRes([d EXCEPT !.parts = @ \cup {part}])

\* CREATE TABLE IF NOT EXISTS name PARTITION OF parent FOR VALUES FROM .. TO ..
CreatePartition(d, part) ==
    IF \E p \in d.parts : p.name = part.name THEN OkRes(d)
    ELSE IF part.parent \notin d.tables THEN ErrRes(d)
    ELSE OkRes([d EXCEPT !.parts = @ \cup {part}])

\* DROP TABLE IF EXISTS name: dropping a partitioned table drops its partitions
DropTable(d, name) ==
    [d EXCEPT !.tables = @ \ {name},
              !.parts = { p \in @ : p.name # name /\ p.parent # name }]

\* INSERT INTO subscriptions (...): the id is the primary key; active defaults to true
InsertRow(d, s) ==
    IF d.rows # {} THEN ErrRes(d)
    ELSE OkRes([d EXCEPT !.rows = {[active |-> TRUE, hc |-> s.HealthCheckID]}])

\* UPDATE subscriptions SET active=.. WHERE id=$1
UpdateActive(d, flag) ==
    [d EXCEPT !.rows = { [r EXCEPT !.active = flag] : r \in @ }]

\* DELETE FROM subscriptions WHERE id=$1
DeleteRow(d) == [d EXCEPT !.rows = {}]

(***************************************************************************)
(* Lifecycle methods, one action per statement that can fail               *)
(***************************************************************************)
NoHist == [committed |-> FALSE, hcCalls |-> <<>>, hcFailed |-> FALSE,
           injected |-> FALSE, pre |-> EmptyDB, preMonitor |-> "none",
           dropped |-> {}, year |-> 0]

\* provider.NewSubscription: the subscription object before it is saved
NewSubscription ==
    /\ year \in FirstYear..MaxYear
    /\ \E dts \in DatasetDataTypes :
          sub = [DataTypes |-> dts, DataTables |-> ComputeTableNames(dts),
                 HealthCheckID |-> ""]
    /\ db = EmptyDB
    /\ tx = NoTx
    /\ op = "none"
    /\ pc = "done"
    /\ idx = 0
    /\ monitor = "none"
    /\ ret = "none"
    /\ hist = NoHist
    /\ partYear = 0
    /\ leftover = FALSE

\* subscribeCmd.Run up to the call of Save: a new subscription is confirmed and,
\* when it is to be monitored, healthcheck.Create has made its check
Subscribe ==
    /\ pc = "done"
    /\ db.rows = {}
    /\ op # "subscribe"
    /\ \E monitored \in BOOLEAN :
          /\ sub' = [sub EXCEPT !.HealthCheckID = IF monitored THEN "hc" ELSE ""]
          /\ monitor' = IF monitored THEN "running" ELSE "none"
    /\ leftover' = (leftover \/ monitor \in {"running", "paused"})
    /\ op' = "subscribe"
    /\ ret' = "none"
    /\ hist' = NoHist
    /\ UNCHANGED <<year, db, tx, pc, idx, partYear>>

\* Pool.Acquire and conn.Begin of a lifecycle method; either may fail
Begin(method, firstPc) ==
    /\ pc = "done"
    /\ op' = method
    /\ idx' = 1
    /\ \/ /\ tx' = db
          /\ pc' = firstPc
          /\ ret' = "none"
          /\ hist' = [NoHist EXCEPT !.pre = db, !.preMonitor = monitor, !.year = year]
       \/ /\ tx' = NoTx
          /\ pc' = "done"
          /\ ret' = "err"
          /\ hist' = [NoHist EXCEPT !.pre = db, !.preMonitor = monitor, !.year = year,
                                    !.injected = TRUE]
    /\ UNCHANGED <<year, sub, db, monitor, partYear, leftover>>

ReturnErrCommits(injectedFailure) ==
    /\ db' = tx
    /\ tx' = NoTx
    /\ pc' = "done"
    /\ ret' = "err"
    /\ hist' = [hist EXCEPT !.injected = @ \/ injectedFailure]
    /\ UNCHANGED <<year, sub, op, idx, monitor, partYear, leftover>>

\* return err: the deferred tx.Rollback discards the transaction
ReturnErr(injectedFailure) ==
    /\ tx' = NoTx
    /\ pc' = "done"
    /\ ret' = "err"
    /\ hist' = [hist EXCEPT !.injected = @ \/ injectedFailure]
    /\ UNCHANGED <<year, sub, db, op, idx, monitor, partYear, leftover>>

\* tx.Commit: the transaction's view becomes the database, or the commit fails
Commit(nextPc) ==
    \/ /\ db' = tx
       /\ tx' = NoTx
       /\ hist' = [hist EXCEPT !.committed = TRUE]
       /\ pc' = nextPc
       /\ ret' = IF nextPc = "done" THEN "ok" ELSE ret
       /\ partYear' = IF op \in {"Save", "ManagePartitions"} THEN year
                      ELSE IF op = "Delete" THEN 0 ELSE partYear
       /\ UNCHANGED <<year, sub, op, idx, monitor, leftover>>
    \/ /\ ReturnErr(TRUE)

----
\* Subscription.Save
SaveBegin ==
    /\ op = "subscribe"
    /\ Begin("Save", "createTables")

\* createTables: one tx.Exec of the data type's schema per loop iteration
SaveCreateTable ==
    /\ op = "Save" /\ pc = "createTables"
    /\ IF idx > Len(sub.DataTypes)
       THEN /\ pc' = "userCurrent"
            /\ UNCHANGED <<year, sub, db, tx, op, idx, monitor, ret, hist, partYear, leftover>>
       ELSE \/ LET r == CreateTable(tx, sub.DataTables[idx])
               IN IF r.ok
                  THEN /\ tx' = r.db
                       /\ idx' = idx + 1
                       /\ UNCHANGED <<year, sub, db, op, pc, monitor, ret, hist, partYear, leftover>>
                  ELSE ReturnErr(FALSE)
            \/ ReturnErr(TRUE)

\* user.Current()
SaveUserCurrent ==
    /\ op = "Save" /\ pc = "userCurrent"
    /\ \/ /\ pc' = "insertRow"
          /\ UNCHANGED <<year, sub, db, tx, op, idx, monitor, ret, hist, partYear, leftover>>
       \/ ReturnErr(TRUE)

\* INSERT INTO subscriptions
SaveInsertRow ==
    /\ op = "Save" /\ pc = "insertRow"
    /\ \/ LET r == InsertRow(tx, sub)
          IN IF r.ok
             THEN /\ tx' = r.db
                  /\ pc' = "partitions"
                  /\ idx' = 1
                  /\ UNCHANGED <<year, sub, db, op, monitor, ret, hist, partYear, leftover>>
             ELSE ReturnErr(FALSE)
       \/ ReturnErr(TRUE)

RECURSIVE CreatePartitions(_, _, _, _)
\* the loop "for _, dt := range dates" of managePartitionsWithTransaction: the
\* statements up to failAt succeed (failAt = 0: none is made to fail)
CreatePartitions(d, dataTable, dates, failAt) ==
    IF dates = <<>> THEN OkRes(d)
    ELSE IF failAt = 1 THEN ErrRes(d)
    ELSE LET r == CreatePartition(d, Partition(dataTable, Head(dates)))
         IN IF r.ok
            THEN CreatePartitions(r.db, dataTable, Tail(dates),
                                  IF failAt = 0 THEN 0 ELSE failAt - 1)
            ELSE r

\* managePartitionsWithTransaction: one step per data type
PartitionsStep(nextPc) ==
    IF idx > Len(sub.DataTypes)
    THEN /\ pc' = nextPc
         /\ UNCHANGED <<year, sub, db, tx, op, idx, monitor, ret, hist, partYear, leftover>>
    ELSE IF ~IsPartitioned(sub.DataTypes[idx])
    THEN /\ idx' = idx + 1
         /\ UNCHANGED <<year, sub, db, tx, op, pc, monitor, ret, hist, partYear, leftover>>
    ELSE \E failAt \in 0..Len(CreateRanges(year)) :
            LET r == CreatePartitions(tx, sub.DataTables[idx], CreateRanges(year), failAt)
            IN IF r.ok
               THEN /\ tx' = r.db
                    /\ idx' = idx + 1
                    /\ UNCHANGED <<year, sub, db, op, pc, monitor, ret, hist, partYear, leftover>>
               ELSE ReturnErr(failAt # 0)

SavePartitions ==
    /\ op = "Save" /\ pc = "partitions"
    /\ PartitionsStep("commit")

SaveCommit ==
    /\ op = "Save" /\ pc = "commit"
    /\ Commit("done")

----
\* Subscription.ManagePartitions
ManagePartitionsBegin ==
    /\ db.rows # {}
    /\ Begin("ManagePartitions", "partitions")

ManagePartitionsStep ==
    /\ op = "ManagePartitions" /\ pc = "partitions"
    /\ PartitionsStep("commit")

ManagePartitionsCommit ==
    /\ op = "ManagePartitions" /\ pc = "commit"
    /\ Commit("done")

----
\* Subscription.Delete
DeleteBegin ==
    /\ db.rows # {}
    /\ Begin("Delete", "dropTables")

\* tables := subscription.PartitionTables(); tables = append(tables, DataTables...)
DeleteTables == PartitionTables(sub, year) \o sub.DataTables

\* one DROP TABLE IF EXISTS per loop iteration
DeleteDropTable ==
    /\ op = "Delete" /\ pc = "dropTables"
    /\ IF idx > Len(DeleteTables)
       THEN /\ pc' = "deleteRow"
            /\ UNCHANGED <<year, sub, db, tx, op, idx, monitor, ret, hist, partYear, leftover>>
       ELSE \/ /\ tx' = DropTable(tx, DeleteTables[idx])
               /\ idx' = idx + 1
               /\ hist' = [hist EXCEPT !.dropped = @ \cup {DeleteTables[idx]}]
               /\ UNCHANGED <<year, sub, db, op, pc, monitor, ret, partYear, leftover>>
            \/ ReturnErr(TRUE)

DeleteSubscriptionRow ==
    /\ op = "Delete" /\ pc = "deleteRow"
    /\ \/ /\ tx' = DeleteRow(tx)
          /\ pc' = "commit"
          /\ UNCHANGED <<year, sub, db, op, idx, monitor, ret, hist, partYear, leftover>>
       \/ ReturnErr(TRUE)

DeleteCommitSkipped ==
    /\ op = "Delete" /\ pc = "commit"
    /\ pc' = "monitor"
    /\ UNCHANGED <<year, sub, db, tx, op, idx, monitor, ret, hist, partYear, leftover>>

DeleteCommit ==
    /\ op = "Delete" /\ pc = "commit"
    /\ Commit("monitor")

MonitorCallSwallowsError(call, effect) ==
    /\ pc = "monitor"
    /\ pc' = "done"
    /\ ret' = "ok"
    /\ IF sub.HealthCheckID = ""
       THEN UNCHANGED <<monitor, hist>>
       ELSE \/ /\ monitor' = effect
               /\ hist' = [hist EXCEPT !.hcCalls = Append(@, call)]
            \/ /\ hist' = [hist EXCEPT !.hcCalls = Append(@, call), !.hcFailed = TRUE]
               /\ UNCHANGED monitor
    /\ UNCHANGED <<year, sub, db, tx, op, idx, partYear, leftover>>

\* the healthcheck call that follows the commit; it may fail
MonitorCall(call, effect) ==
    /\ pc = "monitor"
    /\ pc' = "done"
    /\ IF sub.HealthCheckID = ""
       THEN /\ ret' = "ok"
            /\ UNCHANGED <<monitor, hist>>
       ELSE \/ /\ monitor' = effect
               /\ ret' = "ok"
               /\ hist' = [hist EXCEPT !.hcCalls = Append(@, call)]
            \/ /\ ret' = "err"
               /\ hist' = [hist EXCEPT !.hcCalls = Append(@, call), !.hcFailed = TRUE]
               /\ UNCHANGED monitor
    /\ UNCHANGED <<year, sub, db, tx, op, idx, partYear, leftover>>

\* healthcheck.Delete(subscription.HealthCheckID)
DeleteMonitor ==
    /\ op = "Delete"
    /\ MonitorCall("Delete", "deleted")

----
\* Subscription.Activate
ActivateBegin ==
    /\ db.rows # {}
    /\ Begin("Activate", "update")

ActivateUpdate ==
    /\ op = "Activate" /\ pc = "update"
    /\ \/ /\ tx' = UpdateActive(tx, TRUE)
          /\ pc' = "commit"
          /\ UNCHANGED <<year, sub, db, op, idx, monitor, ret, hist, partYear, leftover>>
       \/ ReturnErr(TRUE)

ActivateCommit ==
    /\ op = "Activate" /\ pc = "commit"
    /\ Commit("monitor")

\* healthcheck.Resume(subscription.HealthCheckID)
ActivateMonitor ==
    /\ op = "Activate"
    /\ MonitorCall("Resume", "running")

\* Subscription.Deactivate
DeactivateBegin ==
    /\ db.rows # {}
    /\ Begin("Deactivate", "update")

DeactivateUpdate ==
    /\ op = "Deactivate" /\ pc = "update"
    /\ \/ /\ tx' = UpdateActive(tx, FALSE)
          /\ pc' = "commit"
          /\ UNCHANGED <<year, sub, db, op, idx, monitor, ret, hist, partYear, leftover>>
       \/ ReturnErr(TRUE)

DeactivateCommit ==
    /\ op = "Deactivate" /\ pc = "commit"
    /\ Commit("monitor")

\* healthcheck.Pause(subscription.HealthCheckID)
DeactivateMonitor ==
    /\ op = "Deactivate"
    /\ MonitorCall("Pause", "paused")

----
\* the calendar year changes between two lifecycle calls
NewYear ==
    /\ pc = "done"
    /\ year < MaxYear
    /\ year' = year + 1
    /\ UNCHANGED <<sub, db, tx, op, pc, idx, monitor, ret, hist, partYear, leftover>>

\* each step of the lifecycle leaves the other parts of the program alone
NextLifecycle ==
    \/ Subscribe /\ UNCHANGED notLifeVars
    \/ SaveBegin /\ UNCHANGED notLifeVars
    \/ SaveCreateTable /\ UNCHANGED notLifeVars
    \/ SaveUserCurrent /\ UNCHANGED notLifeVars
    \/ SaveInsertRow /\ UNCHANGED notLifeVars
    \/ SavePartitions /\ UNCHANGED notLifeVars
    \/ SaveCommit /\ UNCHANGED notLifeVars
    \/ ManagePartitionsBegin /\ UNCHANGED notLifeVars
    \/ ManagePartitionsStep /\ UNCHANGED notLifeVars
    \/ ManagePartitionsCommit /\ UNCHANGED notLifeVars
    \/ DeleteBegin /\ UNCHANGED notLifeVars
    \/ DeleteDropTable /\ UNCHANGED notLifeVars
    \/ DeleteSubscriptionRow /\ UNCHANGED notLifeVars
    \/ DeleteCommit /\ UNCHANGED notLifeVars
    \/ DeleteMonitor /\ UNCHANGED notLifeVars
    \/ ActivateBegin /\ UNCHANGED notLifeVars
    \/ ActivateUpdate /\ UNCHANGED notLifeVars
    \/ ActivateCommit /\ UNCHANGED notLifeVars
    \/ ActivateMonitor /\ UNCHANGED notLifeVars
    \/ DeactivateBegin /\ UNCHANGED notLifeVars
    \/ DeactivateUpdate /\ UNCHANGED notLifeVars
    \/ DeactivateCommit /\ UNCHANGED notLifeVars
    \/ DeactivateMonitor /\ UNCHANGED notLifeVars
    \/ NewYear /\ UNCHANGED notLifeVars

(***************************************************************************)
(* Claims about the subscription lifecycle (SpecLifecycle)                 *)
(***************************************************************************)
PartitionedTables(s) ==
    { s.DataTables[i] : i \in { j \in 1..Len(s.DataTypes) : IsPartitioned(s.DataTypes[j]) } }

\* C2: Save is atomic.  The committed database never shows data tables or
\* partitions without the subscription row, nor the row without its tables; a
\* Save that returned an error committed nothing, and a Save that returned nil
\* committed the row, every data table and every partition together.
C2_SaveAtomic ==
    /\ (db.rows = {}) <=> (db.tables = {})
    /\ db.rows = {} => db.parts = {}
    /\ db.rows # {} => /\ db.tables = SeqToSet(sub.DataTables)
                       /\ \A t \in PartitionedTables(sub) :
                              \E p \in db.parts : p.parent = t
    /\ (op = "Save" /\ pc = "done" /\ ret = "err") => db = EmptyDB
    /\ (op = "Save" /\ pc = "done" /\ ret = "ok") =>
           /\ db.rows # {}
           /\ { p.name : p \in db.parts } = CreatedPartitionNames(sub, hist.year)

\* a Save that failed after its CREATE TABLEs ran inside the transaction
C2_Witness ==
    /\ op = "Save" /\ pc = "done" /\ ret = "err"
    /\ hist.injected
    /\ idx > Len(sub.DataTypes)
    /\ db = EmptyDB

\* the dates from 1900-01-01 to the last day of year y that the model looks at
TestDates(y) ==
    { <<yy, md[1], md[2]>> : yy \in 1900..y, md \in { <<1, 1>>, <<6, 15>>, <<12, 31>> } }

\* C5: once managePartitionsWithTransaction has been committed in the current
\* year (by Save or by ManagePartitions, for the first time or again), every date
\* from 1900-01-01 to the end of the current year lies in exactly one partition
\* of each partitioned data table; and ManagePartitions returns an error only
\* when a statement, the Begin or the Commit was made to fail, never because a
\* partition exists already.
C5_PartitionCoverage ==
    /\ (pc = "done" /\ partYear = year) =>
           \A t \in PartitionedTables(sub) : \A d \in TestDates(year) :
               Cardinality({ p \in db.parts : p.parent = t /\ InRange(d, p) }) = 1
    /\ (op = "ManagePartitions" /\ pc = "done" /\ ret = "err") => hist.injected

\* ManagePartitions called again in a later year, where it adds a bucket
C5_Witness ==
    /\ op = "ManagePartitions" /\ pc = "done" /\ ret = "ok"
    /\ hist.pre.parts # {}
    /\ hist.pre.parts # db.parts
    /\ partYear = year

\* C6: when Delete enumerates the partition tables of a subscription whose
\* partitions were created in the current year, the names PartitionTables
\* returns are exactly the names of the partitions that exist.
C6_EnumerationMatchesCreation ==
    (op = "Delete" /\ pc = "dropTables" /\ idx = 1 /\ partYear = year) =>
        SeqToSet(PartitionTables(sub, year)) = { p.name : p \in db.parts }

\* C7: healthcheck.Delete is called only after the transaction that dropped the
\* tables and deleted the row has been committed; a Delete whose transaction
\* did not commit leaves the database and the check as they were.
C7_DeleteMonitorAfterCommit ==
    /\ (op = "Delete" /\ hist.hcCalls # <<>>) =>
           /\ hist.committed
           /\ db = EmptyDB
    /\ (op = "Delete" /\ pc = "done" /\ ~hist.committed) =>
           /\ ret = "err"
           /\ db = hist.pre
           /\ monitor = hist.preMonitor
           /\ hist.hcCalls = <<>>

\* a Delete that committed and then deleted the check
C7_Witness ==
    /\ op = "Delete" /\ pc = "done" /\ ret = "ok"
    /\ hist.hcCalls = <<"Delete">>
    /\ monitor = "deleted"
    /\ hist.pre.parts # {}

\* C8: Activate and Deactivate call healthcheck.Resume / Pause only after the
\* update of the active flag has been committed; when that call fails the method
\* returns the error and the committed flag keeps its new value.
C8_ToggleMonitorAfterCommit ==
    /\ (op \in {"Activate", "Deactivate"} /\ hist.hcCalls # <<>>) =>
           /\ hist.committed
           /\ db.rows # {}
           /\ \A r \in db.rows : r.active = (op = "Activate")
    /\ (op \in {"Activate", "Deactivate"} /\ pc = "done" /\ hist.hcFailed) =>
           /\ ret = "err"
           /\ \A r \in db.rows : r.active = (op = "Activate")
    /\ (op \in {"Activate", "Deactivate"} /\ pc = "done" /\ ~hist.committed) =>
           /\ ret = "err"
           /\ db = hist.pre
           /\ hist.hcCalls = <<>>

\* a Deactivate whose Pause call failed after the flag was committed
C8_Witness ==
    /\ op = "Deactivate" /\ pc = "done"
    /\ hist.hcFailed
    /\ \E r \in hist.pre.rows : r.active

\* C30: a health-check monitor exists for a subscription only if the row of
\* that subscription is committed: when the Save of the subscribe command has
\* returned an error after healthcheck.Create made the monitor, no monitor is
\* left behind.
C30_NoMonitorWithoutRow ==
    (op = "Save" /\ pc = "done" /\ ret = "err") => monitor = "none"

(***************************************************************************)
(* Record kinds and their SaveDB upserts (data/*.go)                       *)
(***************************************************************************)
\* Subscription.DataTablesMap[key]: the table of a data type of the subscription,
\* the empty name when the subscription has no such data type
NoTable == <<>>

DataTablesMap(s, key) ==
    IF key \in SeqToSet(s.DataTypes) THEN <<s.ID, key>> ELSE NoTable

\* the result of a SaveDB call: the table afterwards, the error it returned and
\* whether its INSERT ... ON CONFLICT statement took effect
SaveResult(rows, err, done) == [rows |-> rows, err |-> err, done |-> done]

\* the row an INSERT of the asset makes: the 21 columns of Asset.SaveDB, of which
\* primary_exchange .. last_updated are written alike and stand behind active,
\* delisted and last_updated
AssetRow(asset) ==
    [ticker |-> asset.Ticker, composite_figi |-> asset.CompositeFigi,
     share_class_figi |-> asset.ShareClassFigi, asset_type |-> asset.AssetType,
     active |-> asset.Active, delisted |-> asset.DelistingDate,
     last_updated |-> asset.LastUpdated]

\* PRIMARY KEY (ticker, composite_figi)
AssetConflicts(rows, asset) ==
    { r \in rows : r.ticker = asset.Ticker /\ r.composite_figi = asset.CompositeFigi }

\* Asset.SaveDB: INSERT, and ON CONFLICT the columns of the SET list are
\* overwritten; share_class_figi and asset_type are not in that list
AssetSaveDB(rows, asset, tbl, execFails) ==
    IF tbl = NoTable \/ execFails
    THEN SaveResult(rows, TRUE, FALSE)
    ELSE LET hit == AssetConflicts(rows, asset)
             upd == { [r EXCEPT !.active = asset.Active,
                                !.delisted = asset.DelistingDate,
                                !.last_updated = asset.LastUpdated] : r \in hit }
         IN  SaveResult(IF hit = {} THEN rows \cup {AssetRow(asset)}
                                    ELSE (rows \ hit) \cup upd,
                        FALSE, TRUE)

\* open, high, low, close, volume, dividend and split_factor are written alike
\* and stand behind close
EodRow(eod) ==
    [ticker |-> eod.Ticker, composite_figi |-> eod.CompositeFigi,
     event_date |-> eod.Date, close |-> eod.Close]

\* PRIMARY KEY (composite_figi, event_date)
EodConflicts(rows, eod) ==
    { r \in rows : r.composite_figi = eod.CompositeFigi /\ r.event_date = eod.Date }

\* CHECK (LENGTH(TRIM(BOTH composite_figi)) = 12) of the eod table: the figis
\* of the inputs other than "" stand for twelve characters
EodCheck(eod) == eod.CompositeFigi # ""

\* Eod.SaveDB: ticker is not in the SET list; the error of Exec is logged and
\* nil is returned
EodSaveDB(rows, eod, tbl, execFails) ==
    IF tbl = NoTable \/ execFails \/ ~EodCheck(eod)
    THEN SaveResult(rows, FALSE, FALSE)
    ELSE LET hit == EodConflicts(rows, eod)
             upd == { [r EXCEPT !.close = eod.Close] : r \in hit }
         IN  SaveResult(IF hit = {} THEN rows \cup {EodRow(eod)}
                                    ELSE (rows \ hit) \cup upd,
                        FALSE, TRUE)

MarketHolidayRow(holiday) ==
    [holiday |-> holiday.Name, event_date |-> holiday.EventDate,
     market |-> holiday.Market, early_close |-> holiday.EarlyClose]

\* PRIMARY KEY (event_date, market)
MarketHolidayConflicts(rows, holiday) ==
    { r \in rows : r.event_date = holiday.EventDate /\ r.market = holiday.Market }

\* MarketHoliday.SaveDB: holiday, early_close and close_time are overwritten
MarketHolidaySaveDB(rows, holiday, tbl, execFails) ==
    IF tbl = NoTable \/ execFails
    THEN SaveResult(rows, TRUE, FALSE)
    ELSE LET hit == MarketHolidayConflicts(rows, holiday)
             upd == { [r EXCEPT !.holiday = holiday.Name,
                                !.early_close = holiday.EarlyClose] : r \in hit }
         IN  SaveResult(IF hit = {} THEN rows \cup {MarketHolidayRow(holiday)}
                                    ELSE (rows \ hit) \cup upd,
                        FALSE, TRUE)

\* the measures of a fundamental are written alike and stand behind revenue
FundamentalRow(fundamental) ==
    [ticker |-> fundamental.Ticker, composite_figi |-> fundamental.CompositeFigi,
     dimension |-> fundamental.Dimension, event_date |-> fundamental.EventDate,
     revenue |-> fundamental.Revenue]

\* PRIMARY KEY (composite_figi, dimension, event_date)
FundamentalConflicts(rows, fundamental) ==
    { r \in rows : /\ r.composite_figi = fundamental.CompositeFigi
                   /\ r.dimension = fundamental.Dimension
                   /\ r.event_date = fundamental.EventDate }

\* Fundamental.SaveDB: returns nil at once when the composite figi is empty;
\* ticker and every measure are overwritten
FundamentalSaveDB(rows, fundamental, tbl, execFails) ==
    IF fundamental.CompositeFigi = ""
    THEN SaveResult(rows, FALSE, FALSE)
    ELSE IF tbl = NoTable \/ execFails
    THEN SaveResult(rows, TRUE, FALSE)
    ELSE LET hit == FundamentalConflicts(rows, fundamental)
             upd == { [r EXCEPT !.ticker = fundamental.Ticker,
                                !.revenue = fundamental.Revenue] : r \in hit }
         IN  SaveResult(IF hit = {} THEN rows \cup {FundamentalRow(fundamental)}
                                    ELSE (rows \ hit) \cup upd,
                        FALSE, TRUE)

(***************************************************************************)
(* The observation channel and SaveObservations (library/summary.go)       *)
(***************************************************************************)
\* the variant pointers of data.Observation, in the order SaveObservations
\* looks at them; a pointer is the empty set (nil) or a set of one payload
Variants == <<"AssetObject", "MarketHoliday", "EodQuote", "Fundamental">>

\* the variant fields that the providers set and SaveObservations does not look
\* at: Metric (sharadar), Rating (zacks), EconomicIndicator (fred)
OtherVariants == {"Metric", "Rating", "EconomicIndicator"}

NoVariants == [v \in SeqToSet(Variants) \cup OtherVariants |-> {}]

\* &data.Observation{<variant>: payload, SubscriptionID: id}
Observation(id, variant, payload) ==
    [variants |-> [NoVariants EXCEPT ![variant] = {payload}], SubscriptionID |-> id]

\* the data type whose table SaveObservations hands to the variant's SaveDB
VariantKey(variant) ==
    CASE variant = "AssetObject" -> AssetKey
      [] variant = "MarketHoliday" -> MarketHolidaysKey
      [] variant = "EodQuote" -> EODKey
      [] variant = "Fundamental" -> FundamentalsKey

Payload(elem, variant) == CHOOSE x \in elem.variants[variant] : TRUE

Populated(elem) == SelectSeq(Variants, LAMBDA v : elem.variants[v] # {})

\* Asset.SaveFiles: an unknown mime type of the icon is an error
SaveFilesOk(asset) ==
    asset.IconMimeType \in {"", "image/jpeg", "image/png", "image/svg+xml", "image/svg"}

SaveDB(variant, rows, payload, tbl, execFails) ==
    CASE variant = "AssetObject" -> AssetSaveDB(rows, payload, tbl, execFails)
      [] variant = "MarketHoliday" -> MarketHolidaySaveDB(rows, payload, tbl, execFails)
      [] variant = "EodQuote" -> EodSaveDB(rows, payload, tbl, execFails)
      [] variant = "Fundamental" -> FundamentalSaveDB(rows, payload, tbl, execFails)

\* the SaveDB calls of one observation, variant after variant; fails holds the
\* variants whose statement the database rejects
RECURSIVE ApplyVariants(_, _, _, _, _, _)
ApplyVariants(tbls, s, elem, todo, fails, calls) ==
    IF todo = <<>>
    THEN [tables |-> tbls, calls |-> calls]
    ELSE LET v == Head(todo)
             tbl == DataTablesMap(s, VariantKey(v))
             res == SaveDB(v, IF tbl = NoTable THEN {} ELSE tbls[tbl],
                           Payload(elem, v), tbl, v \in fails)
             call == [variant |-> v, payload |-> Payload(elem, v), table |-> tbl,
                      err |-> res.err, done |-> res.done]
         IN  ApplyVariants(IF tbl = NoTable THEN tbls ELSE [tbls EXCEPT ![tbl] = res.rows],
                           s, elem, Tail(todo), fails, Append(calls, call))

\* the body of "for elem := range queue"
SinkBody(tbls, subs, elem, fails) ==
    LET known == { s \in subs : s.ID = elem.SubscriptionID }
    IN  IF known = {}
        THEN [tables |-> tbls, calls |-> <<>>]
        ELSE LET s == CHOOSE x \in known : TRUE
             IN  IF /\ elem.variants["AssetObject"] # {}
                    /\ s.Filer
                    /\ ~SaveFilesOk(Payload(elem, "AssetObject"))
                 THEN [tables |-> tbls, calls |-> <<>>]
                 ELSE ApplyVariants(tbls, s, elem, Populated(elem), fails, <<>>)

LastTwo(calls) ==
    IF Len(calls) <= 2 THEN calls ELSE SubSeq(calls, Len(calls) - 1, Len(calls))

SendNonBlocking(elem) ==
    /\ ~closed
    /\ outChan' = IF Len(outChan) < OutChanCap THEN Append(outChan, elem) ELSE outChan
    /\ pushed' = Append(pushed, elem)

\* out <- observation: the sender waits while the buffer is full
Send(elem) ==
    /\ ~closed
    /\ Len(outChan) < OutChanCap
    /\ outChan' = Append(outChan, elem)
    /\ pushed' = Append(pushed, elem)

\* SaveObservations up to its loop: Pool.Acquire (a failure panics) and the
\* load of the subscriptions (a failure is logged and leaves the map empty)
SinkStart(library) ==
    /\ sinkPc = "start"
    /\ \/ /\ sinkPc' = "range"
          /\ subscriptions' \in {library, {}}
       \/ /\ sinkPc' = "panic"
          /\ UNCHANGED subscriptions
    /\ UNCHANGED <<outChan, closed, tables, applied, pushed, received>>

StopsOnError(calls) ==
    IF \E i \in 1..Len(calls) : calls[i].err THEN "done" ELSE "range"

\* where SaveObservations is after the SaveDB calls of an element: an error is
\* logged, and the loop takes the next element
AfterBody(calls) == "range"

\* one iteration of the loop: receive the head of the channel and save it; the
\* database rejects the statements of the variants in one of the sets of rejected
SinkReceive(rejected) ==
    /\ sinkPc = "range"
    /\ outChan # <<>>
    /\ \E fails \in rejected :
          LET res == SinkBody(tables, subscriptions, Head(outChan), fails)
          IN  /\ tables' = res.tables
              /\ applied' = LastTwo(applied \o res.calls)
              /\ sinkPc' = AfterBody(res.calls)
    /\ outChan' = Tail(outChan)
    /\ received' = Append(received, Head(outChan))
    /\ UNCHANGED <<closed, subscriptions, pushed>>

\* the loop ends when the channel is closed and drained: wg.Done()
SinkDone ==
    /\ sinkPc = "range"
    /\ outChan = <<>>
    /\ closed
    /\ sinkPc' = "done"
    /\ UNCHANGED <<outChan, closed, subscriptions, tables, applied, pushed, received>>

(***************************************************************************)
(* SpecSink: providers send observations, SaveObservations drains them     *)
(***************************************************************************)
\* the subscriptions of the library: ID, data types and whether Config["filer"]
\* names a file:// path
PolygonTickers == [ID |-> "polygon-tickers", DataTypes |-> <<AssetKey>>, Filer |-> TRUE]
SharadarTickers == [ID |-> "sharadar-tickers", DataTypes |-> <<AssetKey>>, Filer |-> FALSE]
TiingoEod == [ID |-> "tiingo-eod", DataTypes |-> <<EODKey>>, Filer |-> FALSE]
PolygonHolidays ==
    [ID |-> "polygon-holidays", DataTypes |-> <<MarketHolidaysKey>>, Filer |-> FALSE]
SharadarFundamentals ==
    [ID |-> "sharadar-fundamentals", DataTypes |-> <<FundamentalsKey>>, Filer |-> FALSE]
SharadarMetrics == [ID |-> "sharadar-metrics", DataTypes |-> <<MetricKey>>, Filer |-> FALSE]

Library ==
    {PolygonTickers, SharadarTickers, TiingoEod, PolygonHolidays, SharadarFundamentals,
     SharadarMetrics}

TableNames ==
    UNION { { DataTablesMap(s, s.DataTypes[i]) : i \in 1..Len(s.DataTypes) } : s \in Library }

EmptyTables == [t \in TableNames |-> {}]

\* the payloads the providers of SpecSink send
SinkAsset(figi, shareClass, active, mime) ==
    [Ticker |-> "A", CompositeFigi |-> figi, ShareClassFigi |-> shareClass,
     AssetType |-> "CS", Active |-> active, DelistingDate |-> "", LastUpdated |-> 1,
     IconMimeType |-> mime]

SinkAssets ==
    { SinkAsset("F1", "S1", TRUE, ""), SinkAsset("F1", "S2", TRUE, ""),
      SinkAsset("F1", "S1", FALSE, ""), SinkAsset("F1", "S1", TRUE, "text/html") }

\* downloadSharadarTickers: sharadarTicker.ToAsset sets no composite figi, and
\* only the active assets go through figi.Enrich; every asset is sent
SharadarDelisted == { SinkAsset("", "", FALSE, "") }

SinkEod(ticker, figi, close) ==
    [Ticker |-> ticker, CompositeFigi |-> figi, Date |-> <<2024, 12, 24>>, Close |-> close]

SinkEods == { SinkEod("FB", "F1", 1), SinkEod("META", "F1", 2), SinkEod("FB", "", 1) }

SinkHolidays ==
    { [Name |-> n, EventDate |-> <<2024, 12, 25>>, Market |-> "NYSE", EarlyClose |-> FALSE] :
      n \in {"Christmas", "Christmas Day"} }

\* time.Parse("2006-01-02", date) of a date written <<year, month, day>>
\* succeeds
ParsesAsDate(date) ==
    /\ date[2] \in 1..12
    /\ date[3] >= 1
    /\ date[3] <= (IF date[2] \in {4, 6, 9, 11} THEN 30
                   ELSE IF date[2] # 2 THEN 31
                   ELSE IF date[1] % 4 = 0 /\ (date[1] % 100 # 0 \/ date[1] % 400 = 0) THEN 29
                   ELSE 28)

\* the empty string, as a date
NoDate == <<>>

\* sharadarFundamental.ToPv: nil when calendardate, datekey or reportperiod is
\* there and does not parse; otherwise the Fundamental, with the composite figi
\* that figiMap has for the ticker, or none
ToPv(fundamental, figiMap) ==
    IF \E date \in {fundamental.CalendarDate, fundamental.DateKey, fundamental.ReportPeriod} :
          date # NoDate /\ ~ParsesAsDate(date)
    THEN {}
    ELSE { [Ticker |-> fundamental.Ticker,
            CompositeFigi |-> IF fundamental.Ticker \in DOMAIN figiMap
                              THEN figiMap[fundamental.Ticker] ELSE "",
            Dimension |-> fundamental.Dimension,
            EventDate |-> fundamental.CalendarDate,
            Revenue |-> fundamental.Revenues] }

\* downloadSharadarFundamentals: the observation it sends for a row of SF1
FundamentalObservation(fundamental, figiMap) ==
    [variants |-> [NoVariants EXCEPT !["Fundamental"] = ToPv(fundamental, figiMap)],
     SubscriptionID |-> SharadarFundamentals.ID]

\* rows of SF1: of a ticker that has an active asset, of one that has none, and
\* one whose calendardate is no date
SharadarRow(ticker, calendarDate) ==
    [Ticker |-> ticker, Dimension |-> "ARQ", CalendarDate |-> calendarDate,
     DateKey |-> <<2024, 12, 31>>, ReportPeriod |-> NoDate, Revenues |-> 1]

SharadarRows ==
    { SharadarRow("FB", <<2024, 12, 31>>), SharadarRow("META", <<2024, 12, 31>>),
      SharadarRow("FB", <<2024, 12, 32>>) }

\* figiMap of downloadSharadarFundamentals: the active assets, by ticker
SharadarFigiMap == [t \in {"FB"} |-> "F1"]

\* downloadSharadarMetrics: the Metric of a row of DAILY
SinkMetric ==
    [Ticker |-> "FB", CompositeFigi |-> "F1", EventDate |-> <<2024, 12, 31>>, MarketCap |-> 1]

\* what a provider puts on the channel: its own kind of record under its own
\* subscription, or under a subscription made after the sink started
SinkObservations ==
    { Observation(PolygonTickers.ID, "AssetObject", a) : a \in SinkAssets }
    \cup { Observation(SharadarTickers.ID, "AssetObject", a) : a \in SharadarDelisted }
    \cup { Observation(TiingoEod.ID, "EodQuote", e) : e \in SinkEods }
    \cup { Observation(PolygonHolidays.ID, "MarketHoliday", h) : h \in SinkHolidays }
    \cup { FundamentalObservation(row, SharadarFigiMap) : row \in SharadarRows }
    \cup { Observation(SharadarMetrics.ID, "Metric", SinkMetric) }
    \cup { Observation("new-subscription", "EodQuote", SinkEod("META", "F1", 2)) }

\* a provider sends one observation
ProviderSend ==
    /\ Len(pushed) < MaxPush
    /\ \E elem \in SinkObservations : Send(elem)
    /\ UNCHANGED <<closed, sinkPc, subscriptions, tables, applied, received>>

\* close(outChan) after the last Fetch
CloseOutChan ==
    /\ ~closed
    /\ closed' = TRUE
    /\ UNCHANGED <<outChan, sinkPc, subscriptions, tables, applied, pushed, received>>

NextSink ==
    \/ SinkStart(Library) /\ UNCHANGED notSinkVars
    \/ ProviderSend /\ UNCHANGED notSinkVars
    \/ SinkReceive(SUBSET SeqToSet(Populated(Head(outChan)))) /\ UNCHANGED notSinkVars
    \/ CloseOutChan /\ UNCHANGED notSinkVars
    \/ SinkDone /\ UNCHANGED notSinkVars

(***************************************************************************)
(* Claims about the persistence sink (SpecSink)                            *)
(***************************************************************************)
\* the row a record of the variant is, column by column
RowOf(variant, payload) ==
    CASE variant = "AssetObject" -> AssetRow(payload)
      [] variant = "MarketHoliday" -> MarketHolidayRow(payload)
      [] variant = "EodQuote" -> EodRow(payload)
      [] variant = "Fundamental" -> FundamentalRow(payload)

\* the rows of the table that have the business key of the record
ConflictsOf(variant, rows, payload) ==
    CASE variant = "AssetObject" -> AssetConflicts(rows, payload)
      [] variant = "MarketHoliday" -> MarketHolidayConflicts(rows, payload)
      [] variant = "EodQuote" -> EodConflicts(rows, payload)
      [] variant = "Fundamental" -> FundamentalConflicts(rows, payload)

\* C4: when the sink has applied the same record twice in a row and both
\* statements took effect, the table holds exactly one row with the record's
\* business key and every column of that row has the record's value.
C4_UpsertTwice ==
    (/\ Len(applied) = 2
     /\ applied[1] = applied[2]
     /\ applied[2].done) =>
        ConflictsOf(applied[2].variant, tables[applied[2].table], applied[2].payload)
            = { RowOf(applied[2].variant, applied[2].payload) }

(***************************************************************************)
(* The run command (cmd/run.go) and the frame of every Fetch               *)
(***************************************************************************)
\* exitChan := make(chan data.RunSummary, 5)
ExitChanCap == 5

\* the subscriptions the run command can be asked to run
Runnable == {PolygonTickers, SharadarTickers, TiingoEod}

\* the process is running: no log.Fatal, no panic, no return of runCmd.Run
Alive == runPc \notin {"fatal", "crashed", "exited"} /\ sinkPc # "panic"

NoFetch ==
    [id |-> "", pc |-> "none", todo |-> <<>>, pending |-> <<>>, cursor |-> 0,
     numObs |-> 0, panicking |-> FALSE]

\* the first statements of a Fetch: runSummary is built and the function that
\* sends it is deferred
StartFetch(id) == [NoFetch EXCEPT !.id = id, !.pc = "start"]

ReturnNoSummary(f) == [f EXCEPT !.pc = "exit", !.pending = <<>>]

\* a return statement of the Fetch: the deferred function runs next
Return(f) == [f EXCEPT !.pc = "deferred", !.pending = <<>>]

PanicSkipsDeferred(f) == [f EXCEPT !.pc = "exit", !.pending = <<>>, !.panicking = TRUE]

\* log.Panic() or a runtime panic inside the Fetch: the deferred function runs
\* while the stack unwinds
Panic(f) == [f EXCEPT !.pc = "deferred", !.pending = <<>>, !.panicking = TRUE]

\* the entry of the Fetch in progress, changed
Logged(field, value) == [fetches EXCEPT ![Len(fetches)][field] = value]

\* the loop of runCmd.Run takes the next ID: SubscriptionFromID and the lookups
\* of provider and dataset end the process with log.Fatal when they fail,
\* otherwise Fetch is called
RunLoad ==
    /\ Alive
    /\ runPc = "load"
    /\ args # <<>>
    /\ \/ /\ Head(args) \in { s.ID : s \in Runnable }
          /\ runPc' = "fetch"
          /\ fetch' = StartFetch(Head(args))
          /\ fetches' = Append(fetches, [id |-> Head(args), sent |-> 0, pushes |-> 0,
                                         summary |-> 0, exit |-> "running"])
       \/ /\ runPc' = "fatal"
          /\ UNCHANGED <<fetch, fetches>>
    /\ UNCHANGED <<args, exitChan, blockedSeen, sinkVars>>

\* an observation of the Fetch in progress goes onto the channel
FetchPush ==
    /\ Alive
    /\ runPc = "fetch"
    /\ fetch.pending # <<>>
    /\ Send(Observation(fetch.id, Head(fetch.pending).variant, Head(fetch.pending).payload))
    /\ fetch' = [fetch EXCEPT !.pending = Tail(fetch.pending)]
    /\ fetches' = Logged("pushes", fetches[Len(fetches)].pushes + 1)
    /\ UNCHANGED <<args, runPc, exitChan, blockedSeen,
                   closed, sinkPc, subscriptions, tables, applied, received>>

\* the deferred function of a Fetch: exitNotification <- runSummary
FetchDeferred ==
    /\ Alive
    /\ runPc = "fetch"
    /\ fetch.pc = "deferred"
    /\ Len(exitChan) < ExitChanCap
    /\ exitChan' = Append(exitChan, [SubscriptionID |-> fetch.id,
                                     NumObservations |-> fetch.numObs])
    /\ fetch' = [fetch EXCEPT !.pc = "exit"]
    /\ fetches' = [fetches EXCEPT ![Len(fetches)].sent = @ + 1,
                                  ![Len(fetches)].summary = fetch.numObs]
    /\ UNCHANGED <<args, runPc, blockedSeen, sinkVars>>

\* the Fetch is over: it returns to runCmd.Run, or its panic ends the process
FetchExit ==
    /\ Alive
    /\ runPc = "fetch"
    /\ fetch.pc = "exit"
    /\ runPc' = IF fetch.panicking THEN "crashed" ELSE "recvExit"
    /\ fetches' = Logged("exit", IF fetch.panicking THEN "panicked" ELSE "returned")
    /\ fetch' = NoFetch
    /\ UNCHANGED <<args, exitChan, blockedSeen, sinkVars>>

\* summaryMsg := <-exitChan
RunRecvExit ==
    /\ Alive
    /\ runPc = "recvExit"
    /\ exitChan # <<>>
    /\ exitChan' = Tail(exitChan)
    /\ args' = Tail(args)
    /\ runPc' = "load"
    /\ UNCHANGED <<fetch, fetches, blockedSeen, sinkVars>>

\* close(outChan) after the loop
RunClose ==
    /\ Alive
    /\ runPc = "load"
    /\ args = <<>>
    /\ closed' = TRUE
    /\ runPc' = "wait"
    /\ UNCHANGED <<args, fetch, exitChan, fetches, blockedSeen,
                   outChan, sinkPc, subscriptions, tables, applied, pushed, received>>

\* wg.Wait() returns once SaveObservations is done, and runCmd.Run returns
RunWait ==
    /\ Alive
    /\ runPc = "wait"
    /\ sinkPc = "done"
    /\ runPc' = "exited"
    /\ UNCHANGED <<args, fetch, exitChan, fetches, blockedSeen, sinkVars>>

\* the steps of the SaveObservations goroutine while the process runs
RunSinkStart ==
    /\ Alive
    /\ SinkStart(Library)
    /\ UNCHANGED runVars

\* (the failures of the database are the matter of SpecSink: here it accepts
\* every statement)
RunSinkReceive ==
    /\ Alive
    /\ SinkReceive({{}})
    /\ blockedSeen' = (blockedSeen \/ (fetch.pending # <<>> /\ Len(outChan) = OutChanCap))
    /\ UNCHANGED <<args, runPc, fetch, exitChan, fetches>>

RunSinkDone ==
    /\ Alive
    /\ SinkDone
    /\ UNCHANGED runVars

(***************************************************************************)
(* The Fetch functions of the datasets, as far as their control flow, their *)
(* sends and their RunSummary go                                           *)
(***************************************************************************)
TickerNames == <<"A", "B", "C", "D">>

RunAsset(i, figi) == [SinkAsset(figi, "S1", TRUE, "") EXCEPT !.Ticker = TickerNames[i]]

\* a step of a Fetch: the positions and exits of fetch change, nothing else does
FetchStep(id, from, next) ==
    /\ Alive
    /\ runPc = "fetch"
    /\ fetch.id = id
    /\ fetch.pc = from
    /\ fetch.pending = <<>>
    /\ fetch' \in next
    /\ UNCHANGED <<args, runPc, exitChan, fetches, blockedSeen, sinkVars>>

\* downloadTiingoEODQuotes up to its loop: strconv.Atoi of the rateLimit
\* (return), time.LoadLocation, limiter.Wait and Pool.Acquire (panic), then
\* data.ActiveAssets
TiingoSetup ==
    FetchStep(TiingoEod.ID, "start",
        { Return(fetch), Panic(fetch) }
        \cup { [fetch EXCEPT !.pc = "assets", !.todo = [i \in 1..n |-> RunAsset(i, "F1")]] :
                 n \in 0..MaxItems })

\* the quotes of a response that time.Parse accepts become Eod records
TiingoQuotes(asset, n, malformed) ==
    LET good == SelectSeq([i \in 1..n |-> i], LAMBDA i : i \notin malformed)
    IN  [k \in 1..Len(good) |->
            [variant |-> "EodQuote",
             payload |-> [Ticker |-> asset.Ticker, CompositeFigi |-> asset.CompositeFigi,
                          Date |-> <<2024, 12, 24>>, Close |-> good[k]]]]

\* one iteration of "for _, asset := range assets": the request fails (return),
\* answers with a status of 300 or more (continue), or answers with one or two
\* quotes, the first of which may be malformed
TiingoRequest ==
    /\ fetch.todo # <<>>
    /\ FetchStep(TiingoEod.ID, "assets",
        { Return(fetch), [fetch EXCEPT !.todo = Tail(fetch.todo)] }
        \cup { [fetch EXCEPT !.todo = Tail(fetch.todo),
                             !.pending = TiingoQuotes(Head(fetch.todo), n, malformed)] :
                 n \in {1, 2}, malformed \in {{}, {1}} })

\* the loop is over: the function returns
TiingoDone ==
    /\ fetch.todo = <<>>
    /\ FetchStep(TiingoEod.ID, "assets", { Return(fetch) })

\* downloadAllSharadarTickers enters its cursor loop
SharadarStart ==
    FetchStep(SharadarTickers.ID, "start", { [fetch EXCEPT !.pc = "page"] })

\* the rows of a page that are not ignored, as observations
SharadarAssets(n) ==
    [i \in 1..n |-> [variant |-> "AssetObject", payload |-> RunAsset(i, "F1")]]

\* downloadSharadarTickers: time.LoadLocation or ToAsset panics, a status of 400
\* or more returns the empty cursor, otherwise the assets of the page are sent
\* and the next cursor is returned; the listing has at most MaxItems pages
SharadarPage ==
    FetchStep(SharadarTickers.ID, "page",
        { Panic(fetch), [fetch EXCEPT !.pc = "cursor", !.cursor = 0] }
        \cup { [fetch EXCEPT !.pc = "cursor", !.pending = SharadarAssets(n),
                             !.cursor = next] :
                 n \in 0..MaxItems,
                 next \in { c \in {0, fetch.cursor + 1} : c < MaxItems } })

\* "if cursor == "" { break }": the loop goes on or the function returns
SharadarCursor ==
    FetchStep(SharadarTickers.ID, "cursor",
        { IF fetch.cursor = 0 THEN Return(fetch) ELSE [fetch EXCEPT !.pc = "page"] })

\* the Stock Tickers Fetch of polygon up to its loop over the asset types
PolygonSetup ==
    FetchStep(PolygonTickers.ID, "start",
        { Return(fetch), [fetch EXCEPT !.pc = "assets", !.todo = <<"CS", "ADRC", "ETF">>] })

\* api.assets(ctx, assetType): a panic (limiter.Wait, time.LoadLocation), an
\* error (return) or the assets of the type
PolygonAssets ==
    /\ fetch.todo # <<>>
    /\ FetchStep(PolygonTickers.ID, "assets",
        { Return(fetch), Panic(fetch), [fetch EXCEPT !.todo = Tail(fetch.todo)] })

\* api.filterAssetsByLastUpdated: an error (return) or the assets to query
\* details for; the deferred function reports len(assetDetail)
PolygonFilter ==
    /\ fetch.todo = <<>>
    /\ FetchStep(PolygonTickers.ID, "assets",
        { Return(fetch) }
        \cup { [fetch EXCEPT !.pc = "details", !.numObs = n,
                             !.todo = [i \in 1..n |-> RunAsset(i, "F1")]] :
                 n \in 0..MaxItems })

\* one iteration of api.assetDetails: api.assetDetail panics (limiter.Wait),
\* fails (continue) or gives the full asset, which api.publish sends unless its
\* composite figi is empty
PolygonDetail ==
    /\ fetch.todo # <<>>
    /\ FetchStep(PolygonTickers.ID, "details",
        { Panic(fetch),
          [fetch EXCEPT !.todo = Tail(fetch.todo)],
          [fetch EXCEPT !.todo = Tail(fetch.todo),
                        !.pending = << [variant |-> "AssetObject",
                                        payload |-> Head(fetch.todo)] >>] })

\* api.delistedAssets: a panic (limiter.Wait), an error (return), or the
\* deactivated assets it publishes; then the Fetch returns
PolygonDelisted ==
    /\ fetch.todo = <<>>
    /\ FetchStep(PolygonTickers.ID, "details",
        { Panic(fetch), Return(fetch) }
        \cup { [fetch EXCEPT !.pc = "delisted",
                             !.pending = [i \in 1..n |->
                                 [variant |-> "AssetObject",
                                  payload |-> [RunAsset(i, "F1") EXCEPT !.Active = FALSE]]]] :
                 n \in 1..MaxItems })

PolygonDone ==
    FetchStep(PolygonTickers.ID, "delisted", { Return(fetch) })

NextRun ==
    \/ RunLoad /\ UNCHANGED notRunVars
    \/ TiingoSetup /\ UNCHANGED notRunVars
    \/ TiingoRequest /\ UNCHANGED notRunVars
    \/ TiingoDone /\ UNCHANGED notRunVars
    \/ SharadarStart /\ UNCHANGED notRunVars
    \/ SharadarPage /\ UNCHANGED notRunVars
    \/ SharadarCursor /\ UNCHANGED notRunVars
    \/ PolygonSetup /\ UNCHANGED notRunVars
    \/ PolygonAssets /\ UNCHANGED notRunVars
    \/ PolygonFilter /\ UNCHANGED notRunVars
    \/ PolygonDetail /\ UNCHANGED notRunVars
    \/ PolygonDelisted /\ UNCHANGED notRunVars
    \/ PolygonDone /\ UNCHANGED notRunVars
    \/ FetchPush /\ UNCHANGED notRunVars
    \/ FetchDeferred /\ UNCHANGED notRunVars
    \/ FetchExit /\ UNCHANGED notRunVars
    \/ RunRecvExit /\ UNCHANGED notRunVars
    \/ RunClose /\ UNCHANGED notRunVars
    \/ RunWait /\ UNCHANGED notRunVars
    \/ RunSinkStart /\ UNCHANGED notRunVars
    \/ RunSinkReceive /\ UNCHANGED notRunVars
    \/ RunSinkDone /\ UNCHANGED notRunVars

NonNil(elem) == { v \in DOMAIN elem.variants : elem.variants[v] # {} }

\* the data type of a variant field
DataTypeOf(v) ==
    CASE v = "Metric" -> MetricKey
      [] v = "Rating" -> RatingKey
      [] v = "EconomicIndicator" -> CustomKey
      [] OTHER -> VariantKey(v)

\* C19: when the sink receives an observation of a subscription it has loaded,
\* it makes exactly one SaveDB call: for the variant that is populated, on the
\* table that the subscription maps to the data type of that variant.
C19_OneUpsertPerObservation ==
    [][received' # received =>
          LET elem == Head(outChan)
              known == { x \in subscriptions : x.ID = elem.SubscriptionID }
          IN  (known # {} /\ NonNil(elem) # {}) =>
                 /\ applied' # <<>>
                 /\ LET call == applied'[Len(applied')]
                    IN  /\ applied' = LastTwo(Append(applied, call))
                        /\ NonNil(elem) = {call.variant}
                        /\ call.payload \in elem.variants[call.variant]
                        /\ \E x \in known :
                              call.table = DataTablesMap(x, DataTypeOf(call.variant))]_vars

\* C20: every observation sent on the channel has exactly one variant field
\* that is not nil.
C20_ExactlyOneVariant ==
    \A i \in 1..Len(pushed) : Cardinality(NonNil(pushed[i])) = 1

\* the rows of a table that have an empty composite figi
BlankKeyRows(tbl) ==
    { r \in tables[tbl] : "composite_figi" \in DOMAIN r /\ r.composite_figi = "" }

\* C21: no table holds a row whose business key (the composite figi) is empty,
\* and a SaveDB call for a record with an empty composite figi returns no error
\* and writes nothing.
C21_NoBlankKeyRow ==
    /\ \A tbl \in DOMAIN tables : BlankKeyRows(tbl) = {}
    /\ \A i \in 1..Len(applied) :
          ("CompositeFigi" \in DOMAIN applied[i].payload
              /\ applied[i].payload.CompositeFigi = "") => (~applied[i].err /\ ~applied[i].done)

(***************************************************************************)
(* Claims about the run command (SpecRun)                                  *)
(***************************************************************************)
\* C1: every Fetch call sends its RunSummary at most once, and a Fetch that is
\* over, by a return on any path or by a panic, has sent it exactly once; the
\* send never waits, because the run command receives each summary before it
\* calls the next Fetch.
C1_OneSummaryPerFetch ==
    /\ \A i \in 1..Len(fetches) :
          /\ fetches[i].sent <= 1
          /\ fetches[i].exit # "running" => fetches[i].sent = 1
    /\ Len(exitChan) <= 1
    /\ runPc = "recvExit" => Len(exitChan) = 1

\* two Fetch calls of one run: the first returned after it had pushed
\* observations, the second ended in a panic; each has sent one summary
C1_Witness ==
    /\ Len(fetches) = 2
    /\ fetches[1].exit = "returned" /\ fetches[1].pushes > 0 /\ fetches[1].sent = 1
    /\ fetches[2].exit = "panicked" /\ fetches[2].sent = 1

\* C3: at every moment the observations pushed so far are, in push order, the
\* observations the sink has received followed by those waiting in the channel:
\* none is lost, none is duplicated and none overtakes another, also when a send
\* had to wait for room in the channel.
C3_ChannelFifo == pushed = received \o outChan

\* a send waited on the full channel, and the sink has since received every
\* observation pushed, more of them than the channel holds
C3_Witness ==
    /\ blockedSeen
    /\ outChan = <<>>
    /\ received = pushed
    /\ Len(received) > OutChanCap

\* C22: when the run command has ended with log.Fatal on a subscription it
\* could not resolve, no observation has been fetched and SaveObservations has
\* not begun its work on the database.
C22_FailsBeforeAnyWork ==
    runPc = "fatal" => (pushed = <<>> /\ sinkPc = "start" /\ tables = EmptyTables)

\* the process of the run command is over: runCmd.Run returned, log.Fatal ended
\* it, or a panic did
Ended23 == runPc \in {"exited", "fatal", "crashed"} \/ sinkPc = "panic"

\* every Fetch called so far returned and has sent its one summary
AllReturned ==
    \A i \in 1..Len(fetches) : fetches[i].sent = 1 /\ fetches[i].exit = "returned"

C27_NothingLostAtShutdown ==
    /\ closed => (fetch = NoFetch /\ args = <<>>)
    /\ runPc \in {"exited", "fatal", "crashed"} => (outChan = <<>> /\ received = pushed)

\* C28: the NumObservations of the RunSummary a Fetch has sent is the number of
\* observations that Fetch pushed onto the channel.
C28_SummaryCountsPushes ==
    \A i \in 1..Len(fetches) :
       fetches[i].sent = 1 => fetches[i].summary = fetches[i].pushes

(***************************************************************************)
(* polygon: api.publish and api.delistedAssets (provider/polygon.go)       *)
(***************************************************************************)
\* the grace period of api.delistedAssets, in days: 14*24*time.Hour
GracePeriod == 14

\* tickers are sequences of symbols here, so that "." and "/" can be told apart
\* strings.ReplaceAll(ticker, ".", "/")
ReplaceAll(ticker, old, new) ==
    [i \in 1..Len(ticker) |-> IF ticker[i] = old THEN new ELSE ticker[i]]

\* Asset.ID(): fmt.Sprintf("%s:%s", asset.Ticker, asset.CompositeFigi)
ID(asset) == <<asset.Ticker, ":", asset.CompositeFigi>>

\* strings.Split(s, "T")[0]: the symbols before the first "T"
RECURSIVE SplitHead(_, _)
SplitHead(s, sep) ==
    IF s = <<>> \/ Head(s) = sep THEN <<>> ELSE <<Head(s)>> \o SplitHead(Tail(s), sep)

\* figi.Enrich looks an asset up only when it has no composite figi or no asset
\* type, and no delisting date
EnrichLooksUp(asset) ==
    (asset.CompositeFigi = "" \/ asset.AssetType = "Unknown") /\ asset.DelistingDate = <<>>

\* the asset type figi.Enrich gives an asset of unknown type: the switch over
\* SecurityType2, whose "Mutual Fund" case ends in data.MutualFund
EnrichedType(assetFigi) ==
    IF assetFigi.SecurityType2 \in {"Partnership Shares", "Common Stock"} THEN "CS"
    ELSE IF assetFigi.SecurityType2 = "Depositary Receipt" THEN "ADRC"
    ELSE IF assetFigi.SecurityType2 = "Mutual Fund" THEN "MF"
    ELSE "Unknown"

\* figi.Enrich(asset) with the answers figiMap of OpenFIGI, by ticker
Enrich(asset, figiMap) ==
    IF EnrichLooksUp(asset) /\ asset.Ticker \in DOMAIN figiMap
    THEN LET assetFigi == figiMap[asset.Ticker]
         IN  [asset EXCEPT !.CompositeFigi = assetFigi.CompositeFIGI,
                           !.ShareClassFigi = assetFigi.ShareClassFIGI,
                           !.AssetType = IF @ = "Unknown" THEN EnrichedType(assetFigi) ELSE @]
    ELSE asset

\* what OpenFIGI answers in the model
OpenFigi ==
    [t \in {<<"X">>} |-> [CompositeFIGI |-> "FX", ShareClassFIGI |-> "S1",
                          SecurityType |-> "Common Stock", SecurityType2 |-> "Common Stock"]]

\* api.publish: the observations it sends for the asset, none when the enriched
\* asset has no composite figi; the ticker of the copy that is sent has "/" for
\* "."
Publish(asset) ==
    LET enriched == Enrich(asset, OpenFigi)
    IN  IF enriched.CompositeFigi = ""
        THEN <<>>
        ELSE << [variant |-> "AssetObject",
                 payload |-> [enriched EXCEPT !.Ticker = ReplaceAll(enriched.Ticker, ".", "/")]] >>

\* pgxscan.ScanAll of a row of the assets table
AssetOfRow(r) ==
    [Ticker |-> r.ticker, CompositeFigi |-> r.composite_figi,
     ShareClassFigi |-> r.share_class_figi, AssetType |-> r.asset_type,
     Active |-> r.active, DelistingDate |-> r.delisted, LastUpdated |-> r.last_updated,
     IconMimeType |-> ""]

\* SELECT ... FROM <assets table> WHERE active=true
DbActiveAssets(tbls) ==
    { AssetOfRow(r) : r \in { x \in tbls[DataTablesMap(PolygonTickers, AssetKey)] : x.active } }

\* the database-active assets whose ID is not in assetMap, by ID
Inactive(tbls, assets) ==
    LET cands == { a \in DbActiveAssets(tbls) : ID(a) \notin { ID(f) : f \in assets } }
    IN  [id \in { ID(a) : a \in cands } |-> CHOOSE a \in cands : ID(a) = id]

NoRecon ==
    [pc |-> "none", inactive |-> <<>>, deactivated |-> {}, types |-> <<>>, page |-> 0,
     ii |-> 0, updatedCount |-> 0, pending |-> <<>>, ret |-> "none"]

\* the ways api.delistedAssets ends: return nil, return err, panic
Ended(r, how) == [r EXCEPT !.pc = "done", !.ret = how]

\* a step of api.delistedAssets that sends nothing
ReconStep(from, next) ==
    /\ recon.pc = from
    /\ recon.pending = <<>>
    /\ recon' \in next
    /\ UNCHANGED <<fetched, listing, now, sinkVars>>

\* api.delistedAssets up to the loop over the asset types: time.LoadLocation,
\* Pool.Acquire or the query fails (return err), there is no candidate (return
\* nil), or the candidates are put into inactiveMap
ReconStart ==
    ReconStep("start",
        { Ended(recon, "err"),
          IF DOMAIN Inactive(tables, fetched) = {}
          THEN Ended(recon, "nil")
          ELSE [recon EXCEPT !.pc = "get", !.inactive = Inactive(tables, fetched),
                             !.types = <<"CS", "ADRC", "ETF">>] })

\* the first request of an asset type: limiter.Wait fails (panic); the request
\* fails, which is logged only, so that the dereference of the missing results
\* panics; or the first page is there
ReconGet ==
    ReconStep("get",
        { Ended(recon, "panic"),
          [recon EXCEPT !.pc = "page", !.page = 1, !.ii = 0, !.updatedCount = 0] })

\* one entry of a page of the listing against inactiveMap: a candidate with the
\* entry's ID gets the entry's delisting date and last update, is marked
\* inactive and deactivated, is published and counted
ProcessEntry(r, entry) ==
    LET id == ID([Ticker |-> entry.Ticker, CompositeFigi |-> entry.CompositeFigi])
    IN  IF id \notin DOMAIN r.inactive
        THEN r
        ELSE LET inactiveAsset == [r.inactive[id] EXCEPT
                                      !.DelistingDate = SplitHead(entry.DelistDate, "T"),
                                      !.LastUpdated = entry.LastUpdated,
                                      !.Active = FALSE]
             IN  [r EXCEPT !.inactive[id] = inactiveAsset,
                           !.deactivated = @ \cup {id},
                           !.pending = @ \o Publish(inactiveAsset),
                           !.updatedCount = @ + 1]

\* "for _, polygonAsset := range polygonAssets"
RECURSIVE ProcessPage(_, _)
ProcessPage(r, entries) ==
    IF entries = <<>> THEN r
    ELSE ProcessPage(ProcessEntry(r, Head(entries)), Tail(entries))

\* the loop over the pages of an asset type is left: the next type, or the loop
\* over the candidates that were not deactivated
NextType(r) ==
    IF Len(r.types) <= 1
    THEN [r EXCEPT !.pc = "grace", !.types = <<>>]
    ELSE [r EXCEPT !.pc = "get", !.types = Tail(r.types)]

\* one iteration of "for ii := 0; ii < maxQueries; ii++" up to its break: the
\* status is 300 or more or the page cannot be decoded (return err), or the
\* entries of the page are processed and the loop is left when there is no next
\* page or as many matches were counted as there are candidates
ReconPage ==
    LET pages == listing[Head(recon.types)]
        done == ProcessPage(recon, pages[recon.page])
    IN  ReconStep("page",
            { Ended(recon, "err"),
              IF \/ recon.page = Len(pages)
                 \/ done.updatedCount >= Cardinality(DOMAIN recon.inactive)
              THEN NextType(done)
              ELSE [done EXCEPT !.pc = "next"] })

\* the end of the iteration: limiter.Wait fails (panic), the request of the next
\* page fails (return err), or the next page is there and ii++ decides whether
\* it is looked at
ReconNext ==
    ReconStep("next",
        { Ended(recon, "panic"), Ended(recon, "err"),
          IF recon.ii + 1 < MaxQueries
          THEN [recon EXCEPT !.pc = "page", !.page = @ + 1, !.ii = @ + 1]
          ELSE NextType([recon EXCEPT !.ii = @ + 1]) })

GraceIgnored(asset, today) == TRUE

\* timeSinceLastUpdate > 14*24*time.Hour
GraceElapsed(asset, today) == today - asset.LastUpdated > GracePeriod

\* the orders in which a map of the given keys can be ranged over
Orders(keys) ==
    { order \in [1..Cardinality(keys) -> keys] :
        \A i, j \in 1..Cardinality(keys) : i # j => order[i] # order[j] }

\* api.publish of one asset after the other
RECURSIVE PublishAll(_)
PublishAll(assets) ==
    IF assets = <<>> THEN <<>> ELSE Publish(Head(assets)) \o PublishAll(Tail(assets))

\* "for _, possibleInactiveAsset := range inactiveMap": a candidate that was not
\* deactivated and whose grace period has elapsed is marked inactive, updated
\* now, and published; then the function returns nil
ReconGrace ==
    LET late == { id \in DOMAIN recon.inactive :
                    /\ id \notin recon.deactivated
                    /\ GraceElapsed(recon.inactive[id], now) }
        marked == [id \in DOMAIN recon.inactive |->
                     IF id \in late
                     THEN [recon.inactive[id] EXCEPT !.LastUpdated = now, !.Active = FALSE]
                     ELSE recon.inactive[id]]
    IN  ReconStep("grace",
            { [Ended(recon, "nil") EXCEPT
                  !.inactive = marked,
                  !.pending = PublishAll([i \in 1..Len(order) |-> marked[order[i]]])] :
              order \in Orders(late) })

\* api.publishChan <- &data.Observation{AssetObject: &asset2, ...}
ReconPush ==
    /\ recon.pc # "none"
    /\ recon.pending # <<>>
    /\ Send(Observation(PolygonTickers.ID, Head(recon.pending).variant,
                        Head(recon.pending).payload))
    /\ recon' = [recon EXCEPT !.pending = Tail(recon.pending)]
    /\ UNCHANGED <<fetched, listing, now,
                   closed, sinkPc, subscriptions, tables, applied, received>>

\* SaveObservations drains the channel meanwhile
ReconSinkReceive ==
    /\ recon.pc # "none"
    /\ SinkReceive({{}})
    /\ UNCHANGED reconVars

NextRecon ==
    \/ ReconStart /\ UNCHANGED notReconVars
    \/ ReconGet /\ UNCHANGED notReconVars
    \/ ReconPage /\ UNCHANGED notReconVars
    \/ ReconNext /\ UNCHANGED notReconVars
    \/ ReconGrace /\ UNCHANGED notReconVars
    \/ ReconPush /\ UNCHANGED notReconVars
    \/ ReconSinkReceive /\ UNCHANGED notReconVars

(***************************************************************************)
(* SpecRecon: the database, the fetched assets and the listing it runs on  *)
(***************************************************************************)
Today == GracePeriod + 6

\* the securities of the model, as polygon names them
ReconSecurities ==
    { [Ticker |-> <<"X">>, CompositeFigi |-> "FX"],
      [Ticker |-> <<"BRK", ".", "A">>, CompositeFigi |-> "FB"] }

\* the asset api.assets makes of a ticker of polygon's listing of active tickers
FetchedAsset(sec) ==
    [Ticker |-> sec.Ticker, CompositeFigi |-> sec.CompositeFigi, ShareClassFigi |-> "S1",
     AssetType |-> "CS", Active |-> TRUE, DelistingDate |-> <<>>, LastUpdated |-> Today - 1,
     IconMimeType |-> ""]

\* the row an earlier run has stored for the security: what api.publish sent,
\* as Asset.SaveDB inserted it
StoredRow(sec, lastUpdated) ==
    AssetRow(Publish([FetchedAsset(sec) EXCEPT !.LastUpdated = lastUpdated])[1].payload)

\* the contents of the assets table: any of the securities, last updated a
\* grace period ago or a day more
StoredTables ==
    { { StoredRow(sec, age[sec]) : sec \in secs } :
        secs \in SUBSET ReconSecurities,
        age \in [ReconSecurities -> {Today - GracePeriod - 1, Today - GracePeriod}] }

\* an entry of polygon's listing of inactive tickers
ListingEntry(sec) ==
    [Ticker |-> sec.Ticker, CompositeFigi |-> sec.CompositeFigi,
     DelistDate |-> <<"2024-05-01", "T", "00:00:00Z">>, LastUpdated |-> Today - 2]

\* the pages of the model: empty, one security, or the first security twice
ListingPages ==
    {<<>>} \cup { <<ListingEntry(sec)>> : sec \in ReconSecurities }
           \cup { <<ListingEntry(sec), ListingEntry(sec)>> :
                    sec \in { x \in ReconSecurities : x.Ticker = <<"X">> } }

\* the listings of the model: up to MaxQueries + 1 pages of common stock, one
\* empty page of each other type
Listings ==
    { [type \in {"CS", "ADRC", "ETF"} |-> IF type = "CS" THEN pages ELSE << <<>> >>] :
        pages \in UNION { [1..n -> ListingPages] : n \in 1..(MaxQueries + 1) } }

\* api.delistedAssets is called during a run: SaveObservations has loaded the
\* subscriptions and drained the channel
InitReconVars ==
    /\ recon = [NoRecon EXCEPT !.pc = "start"]
    /\ fetched \in { { FetchedAsset(sec) : sec \in secs } : secs \in SUBSET ReconSecurities }
    /\ listing \in Listings
    /\ now = Today
    /\ outChan = <<>>
    /\ closed = FALSE
    /\ sinkPc = "range"
    /\ subscriptions = Library
    /\ tables \in { [EmptyTables EXCEPT ![DataTablesMap(PolygonTickers, AssetKey)] = rows] :
                      rows \in StoredTables }
    /\ applied = <<>>
    /\ pushed = <<>>
    /\ received = <<>>

(***************************************************************************)
(* Claims about api.delistedAssets                                         *)
(***************************************************************************)
AssetsTable == tables[DataTablesMap(PolygonTickers, AssetKey)]

\* the entries of all pages of all asset types of the listing
ListingEntries ==
    UNION { UNION { { listing[type][n][k] : k \in DOMAIN listing[type][n] } :
                      n \in DOMAIN listing[type] } :
              type \in DOMAIN listing }

\* the entry of the listing names the security of the given ticker, as the
\* database writes it, and composite figi
SameSecurity(entry, ticker, compositeFigi) ==
    /\ ReplaceAll(entry.Ticker, ".", "/") = ticker
    /\ entry.CompositeFigi = compositeFigi

\* the observation that the step sends, if it sends one
Sent == IF Len(pushed') = Len(pushed) + 1 THEN {Payload(pushed'[Len(pushed')], "AssetObject")} ELSE {}

\* C9: api.delistedAssets publishes an asset as inactive only if the listing of
\* inactive tickers has an entry for it, or the asset's row in the database
\* was last updated more than the grace period ago; that the asset is missing
\* from the fetched active assets is never enough.
C9_DeactivationNeedsCause ==
    [][\A asset \in Sent :
          ~asset.Active =>
             \/ \E entry \in ListingEntries :
                   SameSecurity(entry, asset.Ticker, asset.CompositeFigi)
             \/ \E r \in AssetsTable :
                   /\ r.ticker = asset.Ticker
                   /\ r.composite_figi = asset.CompositeFigi
                   /\ r.active
                   /\ now - r.last_updated > GracePeriod]_vars

\* api.delistedAssets has returned nil and all it published is stored: a
\* candidate that misses from the fetched assets and from the listing, and was
\* updated exactly the grace period ago, is still active, while another
\* candidate was deactivated
C9_Witness ==
    /\ recon.pc = "done"
    /\ recon.ret = "nil"
    /\ recon.pending = <<>>
    /\ outChan = <<>>
    /\ \E r \in AssetsTable :
          /\ r.active
          /\ now - r.last_updated = GracePeriod
          /\ ID(AssetOfRow(r)) \in DOMAIN recon.inactive
          /\ ID(AssetOfRow(r)) \notin { ID(f) : f \in fetched }
          /\ ~\E entry \in ListingEntries : SameSecurity(entry, r.ticker, r.composite_figi)
    /\ \E r \in AssetsTable : ~r.active

\* C10: when api.delistedAssets has returned nil, every candidate for which the
\* listing of inactive tickers has an entry was published as inactive with the
\* delisting date of an entry of the listing.
C10_ListedCandidatesDeactivated ==
    (recon.pc = "done" /\ recon.ret = "nil" /\ recon.pending = <<>>) =>
       \A id \in DOMAIN recon.inactive :
          LET candidate == recon.inactive[id]
              entries == { e \in ListingEntries :
                             SameSecurity(e, candidate.Ticker, candidate.CompositeFigi) }
          IN  entries # {} =>
                 \E i \in 1..Len(pushed) :
                    LET asset == Payload(pushed[i], "AssetObject")
                    IN  /\ asset.Ticker = candidate.Ticker
                        /\ asset.CompositeFigi = candidate.CompositeFigi
                        /\ ~asset.Active
                        /\ \E e \in entries :
                              asset.DelistingDate = SplitHead(e.DelistDate, "T")

\* C11: when api.delistedAssets has returned nil and all it published is
\* stored, no candidate that misses from the listing of inactive tickers and
\* whose row was last updated the grace period ago or earlier is still active:
\* it is deactivated as soon as now - lastUpdated is no longer below the grace
\* period, the exact threshold included.
C11_DeactivatedFromThreshold ==
    (recon.pc = "done" /\ recon.ret = "nil" /\ recon.pending = <<>> /\ outChan = <<>>) =>
       \A r \in AssetsTable :
          ( /\ ID(AssetOfRow(r)) \in DOMAIN recon.inactive
            /\ ~\E entry \in ListingEntries : SameSecurity(entry, r.ticker, r.composite_figi)
            /\ now - r.last_updated >= GracePeriod )
          => ~r.active

\* C29: an asset that the provider lists as active is no candidate for
\* deactivation: the identity under which api.publish has stored it is not in
\* the map of inactive assets, whatever its ticker is made of.
C29_SameIdentityNextRun ==
    \A f \in fetched :
       Publish(f) # <<>> => ID(Publish(f)[1].payload) \notin DOMAIN recon.inactive

(***************************************************************************)
(* polygon: api.filterAssetsByLastUpdated (provider/polygon.go)            *)
(***************************************************************************)
NoFilter ==
    [pc |-> "none", assets |-> <<>>, idx |-> 0, assetDetail |-> <<>>, assetUpdate |-> <<>>,
     ret |-> "none"]

\* SELECT COALESCE(last_updated, ...) FROM <assets table>
\* WHERE composite_figi=$1 AND ticker=$2 LIMIT 1
QueryLastUpdated(tbls, asset) ==
    { r.last_updated : r \in { x \in tbls[DataTablesMap(PolygonTickers, AssetKey)] :
                                 /\ x.composite_figi = asset.CompositeFigi
                                 /\ x.ticker = asset.Ticker } }

\* a step of api.filterAssetsByLastUpdated
FilterStep(from, next) ==
    /\ filter.pc = from
    /\ filter' \in next
    /\ UNCHANGED notFilterVars

\* Pool.Acquire: "return nil, err" on failure
FilterAcquire ==
    FilterStep("acquire",
        { [filter EXCEPT !.pc = "done", !.ret = "err", !.assetDetail = <<>>],
          [filter EXCEPT !.pc = "loop", !.idx = 1] })

\* one iteration of "for _, asset := range assets": the query finds no row and
\* the asset is selected, the query fails (return nil, err), or the asset goes
\* to assetUpdate when lastUpdated.After(asset.LastUpdated)
FilterQuery ==
    /\ filter.idx <= Len(filter.assets)
    /\ LET asset == filter.assets[filter.idx]
           found == QueryLastUpdated(tables, asset)
       IN  FilterStep("loop",
               { [filter EXCEPT !.pc = "done", !.ret = "err", !.assetDetail = <<>>] }
               \cup
               IF found = {}
               THEN { [filter EXCEPT !.idx = @ + 1, !.assetDetail = Append(@, asset)] }
               ELSE { [filter EXCEPT !.idx = @ + 1,
                                     !.assetUpdate = IF lastUpdated > asset.LastUpdated
                                                     THEN Append(@, asset) ELSE @] :
                        lastUpdated \in found })

\* slices.SortFunc by LastUpdated, which does not promise to keep the order of
\* equal elements: the orders of the elements of s that it can leave
SortedByLastUpdated(s) ==
    { [i \in 1..Len(s) |-> s[perm[i]]] :
        perm \in { f \in [1..Len(s) -> 1..Len(s)] :
                     /\ \A i, j \in 1..Len(s) : i # j => f[i] # f[j]
                     /\ \A i, j \in 1..Len(s) :
                           i < j => s[f[i]].LastUpdated <= s[f[j]].LastUpdated } }

\* math.Min(float64(assetUpdateLen), 100)
NumAssetsToUpdate(assetUpdateLen) ==
    IF assetUpdateLen < MaxUpdates THEN assetUpdateLen ELSE MaxUpdates

\* after the loop: assetUpdate is sorted, its first numAssetsToUpdate elements
\* are appended to assetDetail, and assetDetail is returned
FilterSort ==
    /\ filter.idx > Len(filter.assets)
    /\ FilterStep("loop",
           { [filter EXCEPT !.pc = "done", !.ret = "nil", !.assetUpdate = sorted,
                            !.assetDetail = @ \o SubSeq(sorted, 1, NumAssetsToUpdate(Len(sorted)))] :
               sorted \in SortedByLastUpdated(filter.assetUpdate) })

NextFilter ==
    \/ FilterAcquire
    \/ FilterQuery
    \/ FilterSort

(***************************************************************************)
(* SpecFilter: the database and the fetched assets it runs on              *)
(***************************************************************************)
\* the securities of the model, in the order of polygon's listing
FilterSecurities ==
    << [Ticker |-> <<"X">>, CompositeFigi |-> "FX"],
       [Ticker |-> <<"Y">>, CompositeFigi |-> "FY"],
       [Ticker |-> <<"Z">>, CompositeFigi |-> "FZ"],
       [Ticker |-> <<"BRK", ".", "A">>, CompositeFigi |-> "FB"] >>

\* the fetched assets: each security of the listing, last updated two or three
\* days ago
FilterInputs ==
    { [i \in 1..Len(FilterSecurities) |->
          [FetchedAsset(FilterSecurities[i]) EXCEPT !.LastUpdated = Today - age[i]]] :
        age \in [1..Len(FilterSecurities) -> {2, 3}] }

\* the assets table: no row for a security, or the row of an earlier run, whose
\* last update is older than, the same as or newer than the fetched ones
FilterTables ==
    { { StoredRow(FilterSecurities[i], Today - age[i]) : i \in secs } :
        secs \in SUBSET (1..Len(FilterSecurities)),
        age \in [1..Len(FilterSecurities) -> {1, 3, 4}] }

InitFilterVars ==
    /\ filter \in { [NoFilter EXCEPT !.pc = "acquire", !.assets = assets] :
                      assets \in FilterInputs }
    /\ outChan = <<>>
    /\ closed = FALSE
    /\ sinkPc = "range"
    /\ subscriptions = Library
    /\ tables \in { [EmptyTables EXCEPT ![DataTablesMap(PolygonTickers, AssetKey)] = rows] :
                      rows \in FilterTables }
    /\ applied = <<>>
    /\ pushed = <<>>
    /\ received = <<>>

(***************************************************************************)
(* Claims about api.filterAssetsByLastUpdated                              *)
(***************************************************************************)
\* the last_updated values of the rows that the database holds for the security
\* of the asset, whose ticker the database writes with "/" for "."
StoredLastUpdated(asset) ==
    { r.last_updated : r \in { x \in AssetsTable :
                                 /\ x.composite_figi = asset.CompositeFigi
                                 /\ x.ticker = ReplaceAll(asset.Ticker, ".", "/") } }

\* the fetched assets whose row in the database is older than the fetched asset
Stale ==
    { i \in 1..Len(filter.assets) :
        \E t \in StoredLastUpdated(filter.assets[i]) : t < filter.assets[i].LastUpdated }

\* the assets selected for the detail lookup
Selected == { filter.assetDetail[k] : k \in 1..Len(filter.assetDetail) }

\* C12: when api.filterAssetsByLastUpdated has returned nil and more than the
\* cap of the fetched assets are stale, exactly as many stale assets as the cap
\* are selected, and no stale asset that is left out is older than one that is
\* selected.
C12_CapOldestStale ==
    (filter.pc = "done" /\ filter.ret = "nil" /\ Cardinality(Stale) > MaxUpdates) =>
       LET chosen == { i \in Stale : filter.assets[i] \in Selected }
       IN  /\ Cardinality(chosen) = MaxUpdates
           /\ \A i \in chosen, j \in Stale \ chosen :
                 filter.assets[i].LastUpdated <= filter.assets[j].LastUpdated

\* C13: when api.filterAssetsByLastUpdated has returned nil, every selected
\* asset that has a row in the database has a row that is older than the
\* fetched asset.
C13_SelectedOnlyIfOlder ==
    (filter.pc = "done" /\ filter.ret = "nil") =>
       \A asset \in Selected :
          StoredLastUpdated(asset) # {} =>
             \E t \in StoredLastUpdated(asset) : t < asset.LastUpdated

(***************************************************************************)
(* The page requests of the Fetch functions: polygon's api.assets,         *)
(* downloadTiingoEODQuotes, downloadAllSharadarTickers and                 *)
(* downloadAllSharadarFundamentals                                         *)
(***************************************************************************)
\* the Fetch functions of the model
WalkFunctions == {"polygon", "tiingo", "sharadarTickers", "sharadarFundamentals"}

\* requests of one loop are counted up to this number
MaxRequests == MaxAssetQueries + 2

NoWalk ==
    [fn |-> "none", pc |-> "none", types |-> <<>>, todo |-> 0, token |-> 0, ii |-> 0,
     page |-> 0, status |-> 0, decodes |-> TRUE, panicking |-> FALSE,
     \* what the caller sees
     callerPc |-> "none", summary |-> <<>>,
     \* bookkeeping: the requests of the current loop, a request was made without
     \* a token of its own, the failure of a page, a request was made after it,
     \* limiter.Wait has returned the cancellation
     requests |-> 0, unpaid |-> FALSE, failed |-> "none", late |-> FALSE,
     waitCancelled |-> FALSE]

\* runSummary.Status as the deferred function of the Fetch leaves it: only the
\* sharadar tickers set it, to data.RunSuccess on every path
SummaryStatus(fn) == IF fn = "sharadarTickers" THEN "RunSuccess" ELSE ""

\* the page has a next cursor
HasNext(k) == server.endless \/ k < server.pages

\* a return statement: the deferred function runs next
WalkReturn(w) == [w EXCEPT !.pc = "deferred"]

\* log.Panic() or a runtime panic: the deferred function runs while the stack
\* unwinds
WalkPanic(w) == [w EXCEPT !.pc = "deferred", !.panicking = TRUE]

\* limiter.Wait(ctx) of a limiter with burst 1: it returns an error when the
\* context is cancelled, which every caller answers with log.Panic; otherwise
\* the caller holds a token
Wait(w, next) ==
    IF cancelled
    THEN WalkPanic([w EXCEPT !.waitCancelled = TRUE])
    ELSE [w EXCEPT !.token = 1, !.pc = next]

\* client.R()...Get(url): a request goes out, on the token the caller holds if
\* it holds one
Request(w) ==
    [w EXCEPT !.token = 0,
              !.requests = IF @ < MaxRequests THEN @ + 1 ELSE @,
              !.unpaid = @ \/ w.token = 0,
              !.late = @ \/ w.failed # "none"]

\* the answers to a request for page k: a network error, or a response with a
\* status and a body that decodes or not
Answers(w, k) ==
    { [w EXCEPT !.status = 0, !.failed = "network"] }
    \cup { [w EXCEPT !.page = k, !.status = 200, !.decodes = TRUE] }
    \cup { [w EXCEPT !.page = k, !.status = 500, !.decodes = TRUE, !.failed = "status"] }
    \cup { [w EXCEPT !.page = k, !.status = 200, !.decodes = FALSE, !.failed = "decode"] }

\* a step of the Fetch
WalkStep(fn, from, next) ==
    /\ walk.fn = fn
    /\ walk.pc = from
    /\ walk' \in next
    /\ UNCHANGED <<server, cancelled>>

\* ---- polygon: Stock Tickers Fetch, api.assets ----
\* the Fetch up to its loop over the asset types: strconv.Atoi fails (return)
PolygonStart ==
    WalkStep("polygon", "start",
        { WalkReturn(walk), [walk EXCEPT !.pc = "type", !.types = <<"CS", "ADRC", "ETF">>] })

\* "for _, assetType := range ...": api.assets is called for the next type
\* (time.LoadLocation can panic, then limiter.Wait), or the Fetch goes on to the
\* detail lookups, which are not followed here, and returns
PolygonType ==
    WalkStep("polygon", "type",
        IF walk.types = <<>>
        THEN { WalkReturn(walk) }
        ELSE { WalkPanic(walk),
               Wait([walk EXCEPT !.ii = 0, !.page = 0, !.requests = 0], "first") })

\* the first request of api.assets: "return assets, err" on a network error
PolygonFirst ==
    WalkStep("polygon", "first",
        { IF a.failed = "network" THEN WalkReturn(a) ELSE [a EXCEPT !.pc = "page"] :
            a \in Answers(Request(walk), 1) })

\* one iteration of "for ii := 0; ii < maxQueries; ii++" up to limiter.Wait: a
\* status of 300 or more and a body that does not decode return an error; with
\* no next cursor api.assets returns its assets
PolygonPage ==
    WalkStep("polygon", "page",
        { IF walk.status >= 300 \/ ~walk.decodes
          THEN WalkReturn(walk)
          ELSE IF ~HasNext(walk.page)
          THEN [walk EXCEPT !.pc = "type", !.types = Tail(@)]
          ELSE Wait(walk, "next") })

\* the request of the next page, ii++ and the test of ii < maxQueries
PolygonNextPage ==
    WalkStep("polygon", "next",
        { IF a.failed = "network" THEN WalkReturn(a)
          ELSE IF a.ii + 1 < MaxAssetQueries THEN [a EXCEPT !.pc = "page", !.ii = @ + 1]
          ELSE [a EXCEPT !.pc = "type", !.ii = @ + 1, !.types = Tail(@)] :
            a \in Answers(Request(walk), walk.page + 1) })

\* ---- tiingo: downloadTiingoEODQuotes ----
\* up to the loop: strconv.Atoi fails (return), time.LoadLocation or
\* Pool.Acquire fails (panic), limiter.Wait is called once, data.ActiveAssets
\* gives the assets
TiingoStart ==
    WalkStep("tiingo", "start",
        { WalkReturn(walk), WalkPanic(walk) }
        \cup { Wait([walk EXCEPT !.todo = n], "assets") : n \in 0..MaxItems + 1 })

\* one iteration of "for _, asset := range assets": the request; a network
\* error returns, a status of 300 or more continues with the next asset, and
\* the quotes of a response are sent
TiingoGet ==
    /\ walk.todo > 0
    /\ WalkStep("tiingo", "assets",
        { IF a.failed = "network" /\ a.status = 0 THEN WalkReturn(a)
          ELSE [a EXCEPT !.todo = @ - 1] :
            a \in { x \in Answers(Request(walk), 1) : x.decodes } })

TiingoEnd ==
    /\ walk.todo = 0
    /\ WalkStep("tiingo", "assets", { WalkReturn(walk) })

\* ---- sharadar: downloadAllSharadarTickers, downloadAllSharadarFundamentals ----
\* one iteration of "for { cursor = download...(ctx, subscription, cursor, out) }":
\* a panic (time.LoadLocation, Pool.Acquire); the request, whose network error
\* is logged only, so that the missing response panics or reads as an empty
\* page; a status of 400 or more returns the empty cursor; otherwise the next
\* cursor of the page is returned, and the loop ends when it is empty
SharadarLoop(fn) ==
    WalkStep(fn, "start",
        { WalkPanic(walk) }
        \cup UNION { IF a.failed = "network" /\ a.status = 0
                        THEN { WalkPanic(a), WalkReturn(a) }
                     ELSE IF a.status >= 400 THEN { WalkReturn(a) }
                     ELSE IF HasNext(a.page) THEN { a } ELSE { WalkReturn(a) } :
                       a \in { x \in Answers(Request(walk),
                                             IF walk.page < MaxRequests THEN walk.page + 1
                                             ELSE walk.page) : x.decodes } })

SharadarTickersLoop == SharadarLoop("sharadarTickers")

SharadarFundamentalsLoop == SharadarLoop("sharadarFundamentals")

\* ---- the frame of the Fetch and its caller ----
\* the deferred function: exitNotification <- runSummary
WalkDeferred ==
    /\ walk.pc = "deferred"
    /\ walk' = [walk EXCEPT !.pc = "exit",
                            !.summary = Append(@, [Status |-> SummaryStatus(walk.fn)])]
    /\ UNCHANGED <<server, cancelled>>

\* the Fetch is over: it returns to runCmd.Run, or its panic ends the process
WalkExit ==
    /\ walk.pc = "exit"
    /\ walk' = [walk EXCEPT !.pc = "over",
                            !.callerPc = IF walk.panicking THEN "crashed" ELSE "recvExit"]
    /\ UNCHANGED <<server, cancelled>>

\* summaryMsg := <-exitChan
WalkCallerReceives ==
    /\ walk.callerPc = "recvExit"
    /\ walk' = [walk EXCEPT !.callerPc = "received"]
    /\ UNCHANGED <<server, cancelled>>

\* the context of the Fetch is cancelled while the Fetch runs
Cancel ==
    /\ walk.pc \notin {"none", "over"}
    /\ ~cancelled
    /\ cancelled' = TRUE
    /\ UNCHANGED <<walk, server>>

NextWalk ==
    \/ PolygonStart /\ UNCHANGED notWalkVars
    \/ PolygonType /\ UNCHANGED notWalkVars
    \/ PolygonFirst /\ UNCHANGED notWalkVars
    \/ PolygonPage /\ UNCHANGED notWalkVars
    \/ PolygonNextPage /\ UNCHANGED notWalkVars
    \/ TiingoStart /\ UNCHANGED notWalkVars
    \/ TiingoGet /\ UNCHANGED notWalkVars
    \/ TiingoEnd /\ UNCHANGED notWalkVars
    \/ SharadarTickersLoop /\ UNCHANGED notWalkVars
    \/ SharadarFundamentalsLoop /\ UNCHANGED notWalkVars
    \/ WalkDeferred /\ UNCHANGED notWalkVars
    \/ WalkExit /\ UNCHANGED notWalkVars
    \/ WalkCallerReceives /\ UNCHANGED notWalkVars
    \/ Cancel /\ UNCHANGED notWalkVars

\* a Fetch is called for a listing of one to MaxAssetQueries + 1 pages, or for
\* one that never ends
InitWalkVars ==
    /\ walk \in { [NoWalk EXCEPT !.fn = fn, !.pc = "start", !.callerPc = "fetch"] :
                    fn \in WalkFunctions }
    /\ server \in { [pages |-> n, endless |-> FALSE] : n \in 1..MaxAssetQueries + 1 }
                  \cup { [pages |-> 1, endless |-> TRUE] }
    /\ cancelled = FALSE

(***************************************************************************)
(* Claims about the page requests (SpecWalk)                               *)
(***************************************************************************)
\* C14: no request of a Fetch goes out without a token of its own: before every
\* request, the first and each later one, limiter.Wait has returned
\* successfully since the request before.
C14_TokenPerRequest == ~walk.unpaid

\* C15: a cursor loop never makes more page requests than its ceiling allows
\* (the ceiling and the request before the loop), however long the server goes
\* on returning a next cursor.
C15_RequestsBelowCeiling == walk.requests <= MaxAssetQueries + 1

\* the statuses of a RunSummary that tell a failed or partial run
FailedStatuses == {"RunFailed", "RunPartial", "RunCancelled"}

\* C16: after a page request has failed, the Fetch makes no further request,
\* and the RunSummary it sends carries a failed or partial status.
C16_FailedPageAborts ==
    /\ ~walk.late
    /\ (walk.failed # "none" /\ walk.summary # <<>>) =>
          \A i \in 1..Len(walk.summary) : walk.summary[i].Status \in FailedStatuses

\* C17: a Fetch whose limiter.Wait was cut short by the cancellation of the
\* context, once it is over, has sent exactly one RunSummary, with a failed or
\* cancelled status, and has returned to its caller, which receives the summary.
C17_CancelledFetchReturns ==
    (walk.waitCancelled /\ walk.pc = "over") =>
       /\ Len(walk.summary) = 1
       /\ walk.summary[1].Status \in FailedStatuses
       /\ walk.callerPc \in {"recvExit", "received"}

(***************************************************************************)
(* The records of one response: polygon's upcoming market holidays, a page *)
(* of polygon's tickers, the observations of a FRED series                 *)
(***************************************************************************)
PageFunctions == {"holidays", "assets", "indicator"}

NoPage == [fn |-> "none", pc |-> "none", records |-> <<>>, idx |-> 0, out |-> <<>>, ret |-> ""]

\* the empty string, as a time
NoTime == <<>>

\* time.Parse(time.RFC3339, text) of a time written <<date, hour, minute>>
\* succeeds
ParsesAsTime(t) ==
    /\ t # NoTime
    /\ ParsesAsDate(t[1])
    /\ t[2] \in 0..23
    /\ t[3] \in 0..59

Digits == {"0", "1", "2", "3", "4", "5", "6", "7", "8", "9"}

\* strconv.ParseFloat(text, 64) succeeds, for a text of digits, points and
\* other characters: there is a digit, nothing but digits and points, and at
\* most one point
ParsesAsFloat(text) ==
    /\ \E i \in 1..Len(text) : text[i] \in Digits
    /\ \A i \in 1..Len(text) : text[i] \in Digits \cup {"."}
    /\ Cardinality({ i \in 1..Len(text) : text[i] = "." }) <= 1

\* the value strconv.ParseFloat gives: the digits before the point and those
\* after it
FloatValue(text) ==
    LET points == { i \in 1..Len(text) : text[i] = "." }
        at == IF points = {} THEN Len(text) + 1 ELSE CHOOSE i \in points : TRUE
    IN  [whole |-> SubSeq(text, 1, at - 1), fraction |-> SubSeq(text, at + 1, Len(text))]

\* json.Unmarshal into polygonStock accepts the entry: "active", written
\* <<JSON type, text>>, is a boolean
JsonFits(ticker) == ticker.Active[1] = "boolean"

\* closeTime of a holiday: 16:00 of the day, or the parsed close
CloseTime(holiday) ==
    IF holiday.Close = NoTime THEN <<holiday.Date, 16, 0>> ELSE holiday.Close

\* the MarketHoliday made from an entry of the response
HolidayOf(holiday) ==
    [Name |-> holiday.Name, EventDate |-> holiday.Date, Market |-> holiday.Exchange,
     EarlyClose |-> (holiday.Status = "early-close"), CloseTime |-> CloseTime(holiday)]

\* the Asset made from an entry of the page
AssetOfTicker(ticker) ==
    [Ticker |-> ticker.Ticker, CompositeFigi |-> ticker.CompositeFIGI,
     LastUpdated |-> ticker.LastUpdated]

\* the EconomicIndicator made from an observation of the series
IndicatorOf(obs) ==
    [Series |-> "GDP", EventDate |-> obs.Date, Value |-> FloatValue(obs.Value)]

PageStep(fn, from, next) ==
    /\ page.fn = fn
    /\ page.pc = from
    /\ page' = next

\* one iteration of the loop of the Market Holidays Fetch: a date that does not
\* parse takes the next entry, a close that does not parse returns
HolidaysRecord ==
    /\ page.idx <= Len(page.records)
    /\ LET holiday == page.records[page.idx]
       IN  PageStep("holidays", "loop",
              IF ~ParsesAsDate(holiday.Date)
              THEN [page EXCEPT !.idx = @ + 1]
              ELSE IF holiday.Close # NoTime /\ ~ParsesAsTime(holiday.Close)
              THEN [page EXCEPT !.pc = "done", !.ret = "return"]
              ELSE [page EXCEPT !.idx = @ + 1, !.out = Append(@, HolidayOf(holiday))])

\* api.assets: json.Unmarshal of the results of the page; its error returns
\* nil, err
AssetsUnmarshal ==
    PageStep("assets", "decode",
       IF \A i \in 1..Len(page.records) : JsonFits(page.records[i])
       THEN [page EXCEPT !.pc = "loop", !.idx = 1]
       ELSE [page EXCEPT !.pc = "done", !.ret = "err", !.out = <<>>])

\* one iteration of "for _, ticker := range polygonTickers"
AssetsRecord ==
    /\ page.idx <= Len(page.records)
    /\ LET ticker == page.records[page.idx]
       IN  PageStep("assets", "loop",
              IF ~ParsesAsTime(ticker.LastUpdated)
              THEN [page EXCEPT !.idx = @ + 1]
              ELSE [page EXCEPT !.idx = @ + 1, !.out = Append(@, AssetOfTicker(ticker))])

\* one iteration of the loop of downloadIndicator
IndicatorRecord ==
    /\ page.idx <= Len(page.records)
    /\ LET obs == page.records[page.idx]
       IN  PageStep("indicator", "loop",
              IF ~ParsesAsDate(obs.Date) \/ obs.Value = <<".">> \/ ~ParsesAsFloat(obs.Value)
              THEN [page EXCEPT !.idx = @ + 1]
              ELSE [page EXCEPT !.idx = @ + 1, !.out = Append(@, IndicatorOf(obs))])

\* the loop over the records is over
PageEnd ==
    /\ page.idx > Len(page.records)
    /\ \E fn \in PageFunctions : PageStep(fn, "loop", [page EXCEPT !.pc = "done", !.ret = "end"])

NextPage ==
    \/ HolidaysRecord /\ UNCHANGED notPageVars
    \/ AssetsUnmarshal /\ UNCHANGED notPageVars
    \/ AssetsRecord /\ UNCHANGED notPageVars
    \/ IndicatorRecord /\ UNCHANGED notPageVars
    \/ PageEnd /\ UNCHANGED notPageVars

(***************************************************************************)
(* SpecPage: the responses                                                 *)
(***************************************************************************)
GoodDate == <<2024, 12, 25>>
BadDate == <<2024, 13, 1>>

\* entries of marketstatus/upcoming: a closed day, an early close, a date that
\* is no date, a close that is no time
HolidayEntries ==
    { [Date |-> d, Close |-> c, Name |-> "Christmas", Exchange |-> "NYSE", Status |-> s] :
        d \in {GoodDate, BadDate},
        c \in {NoTime, <<GoodDate, 13, 0>>, <<GoodDate, 25, 0>>},
        s \in {"closed"} }

\* entries of reference/tickers: last_updated_utc a time or not, "active" a
\* boolean or a string
TickerEntries ==
    { [Ticker |-> "A", CompositeFIGI |-> "F1", LastUpdated |-> t, Active |-> a] :
        t \in {<<GoodDate, 13, 0>>, <<BadDate, 13, 0>>}, a \in {<<"boolean", "true">>, <<"string", "true">>} }

\* observations of a series: the value a number, ".", or no number
FredObservations ==
    { [Date |-> d, Value |-> v] :
        d \in {GoodDate, BadDate}, v \in {<<"1", ".", "5">>, <<".">>, <<"n", "a">>} }

Pages(entries) == UNION { [1..n -> entries] : n \in 1..MaxRecords }

InitPageVars ==
    \/ \E records \in Pages(HolidayEntries) :
          page = [NoPage EXCEPT !.fn = "holidays", !.pc = "loop", !.idx = 1, !.records = records]
    \/ \E records \in Pages(TickerEntries) :
          page = [NoPage EXCEPT !.fn = "assets", !.pc = "decode", !.records = records]
    \/ \E records \in Pages(FredObservations) :
          page = [NoPage EXCEPT !.fn = "indicator", !.pc = "loop", !.idx = 1, !.records = records]

(***************************************************************************)
(* Claims about the records of a response (SpecPage)                       *)
(***************************************************************************)
\* the record has nothing that does not parse
WellFormed(fn, record) ==
    CASE fn = "holidays" ->
            ParsesAsDate(record.Date) /\ (record.Close = NoTime \/ ParsesAsTime(record.Close))
      [] fn = "assets" -> JsonFits(record) /\ ParsesAsTime(record.LastUpdated)
      [] fn = "indicator" -> ParsesAsDate(record.Date) /\ ParsesAsFloat(record.Value)

Converted(fn, record) ==
    CASE fn = "holidays" -> HolidayOf(record)
      [] fn = "assets" -> AssetOfTicker(record)
      [] fn = "indicator" -> IndicatorOf(record)

\* C24: when the function is over, it has processed, in their order, every
\* record of the response that is well formed: a malformed record is left out
\* and takes no other record with it.
C24_MalformedSkipped ==
    page.pc = "done" =>
       LET good == SelectSeq(page.records, LAMBDA r : WellFormed(page.fn, r))
       IN  page.out = [i \in 1..Len(good) |-> Converted(page.fn, good[i])]

(***************************************************************************)
(* The names of the data tables: provider.NewSubscription,                 *)
(* Subscription.ComputeTableNames and the subscribe command                *)
(* Strings are sequences of characters here.                               *)
(***************************************************************************)
UpperCase == <<"A", "B", "C", "D", "E", "F", "G", "H", "I", "J", "K", "L", "M", "N", "O", "P", "Q", "R", "S", "T", "U", "V", "W", "X", "Y", "Z">>
LowerCase == <<"a", "b", "c", "d", "e", "f", "g", "h", "i", "j", "k", "l", "m", "n", "o", "p", "q", "r", "s", "t", "u", "v", "w", "x", "y", "z">>

ToLower(c) ==
    IF \E i \in 1..26 : UpperCase[i] = c
    THEN LowerCase[CHOOSE i \in 1..26 : UpperCase[i] = c]
    ELSE c

\* the characters slug.Make keeps: [a-zA-Z0-9-_]
Authorized(c) == c \in SeqToSet(LowerCase) \cup SeqToSet(UpperCase) \cup Digits \cup {"-", "_"}

\* "-+" becomes "-"
RECURSIVE CollapseDashes(_)
CollapseDashes(s) ==
    IF Len(s) < 2 THEN s
    ELSE IF s[1] = "-" /\ s[2] = "-" THEN CollapseDashes(Tail(s))
    ELSE <<s[1]>> \o CollapseDashes(Tail(s))

\* strings.Trim(s, cutset)
RECURSIVE Trim(_, _)
Trim(s, cutset) ==
    IF s = <<>> THEN s
    ELSE IF s[1] \in cutset THEN Trim(Tail(s), cutset)
    ELSE IF s[Len(s)] \in cutset THEN Trim(SubSeq(s, 1, Len(s) - 1), cutset)
    ELSE s

\* slug.Make of a text without "&" and "@": lower case, every other character
\* than the authorized ones a dash, runs of dashes one dash, no dash or
\* underscore at the ends
Slug(s) ==
    LET lower == [i \in 1..Len(s) |-> ToLower(s[i])]
        dashed == [i \in 1..Len(s) |-> IF Authorized(lower[i]) THEN lower[i] ELSE "-"]
    IN  Trim(CollapseDashes(dashed), {"-", "_"})

\* strings.ReplaceAll(s, "-", "_")
Underscored(s) == [i \in 1..Len(s) |-> IF s[i] = "-" THEN "_" ELSE s[i]]

\* subscription.ID.String()[:5]
IDPrefix(id) == SubSeq(id, 1, 5)

\* the body of the loop of ComputeTableNames
TableName(provider, dataset, dataType, id) ==
    Underscored(Slug(provider \o <<" ">> \o dataset \o <<" ">> \o dataType \o <<" ">>
                     \o IDPrefix(id)))

\* what ComputeTableNames assigns to subscription.DataTables
DataTablesOf(s) ==
    [i \in 1..Len(s.DataTypes) |-> TableName(s.Provider, s.Dataset, s.DataTypes[i], s.ID)]

NoSub == [ID |-> <<>>, Provider |-> <<>>, Dataset |-> <<>>, DataTypes |-> <<>>, DataTables |-> <<>>]

NoCalc == [fn |-> "none"]

\* provider.Map and the datasets of each provider, with their data types
Polygon == <<"p", "o", "l", "y", "g", "o", "n">>
Sharadar == <<"s", "h", "a", "r", "a", "d", "a", "r">>
StockTickers == <<"S", "t", "o", "c", "k", " ", "T", "i", "c", "k", "e", "r", "s">>
MarketHolidays == <<"M", "a", "r", "k", "e", "t", " ", "H", "o", "l", "i", "d", "a", "y", "s">>
Fundamentals == <<"F", "u", "n", "d", "a", "m", "e", "n", "t", "a", "l", "s">>
AssetDescription == <<"a", "s", "s", "e", "t", "-", "d", "e", "s", "c", "r", "i", "p", "t", "i", "o", "n">>
MarketHolidaysType == <<"m", "a", "r", "k", "e", "t", "-", "h", "o", "l", "i", "d", "a", "y", "s">>
FundamentalsType == <<"f", "u", "n", "d", "a", "m", "e", "n", "t", "a", "l", "s">>

Catalog ==
    { [Provider |-> Polygon, Dataset |-> StockTickers, DataTypes |-> <<AssetDescription>>],
      [Provider |-> Polygon, Dataset |-> MarketHolidays, DataTypes |-> <<MarketHolidaysType>>],
      [Provider |-> Sharadar, Dataset |-> StockTickers, DataTypes |-> <<AssetDescription>>],
      [Provider |-> Sharadar, Dataset |-> Fundamentals, DataTypes |-> <<FundamentalsType>>] }

\* what the user may name: the datasets above, and a dataset no provider has
Requests ==
    { [Provider |-> c.Provider, Dataset |-> c.Dataset] : c \in Catalog }
    \cup { [Provider |-> Polygon, Dataset |-> Fundamentals] }

\* uuid.New(): the start of three strings, two of which begin alike
UUIDs == { <<"1", "a", "2", "b", "3", "c">>, <<"1", "a", "2", "b", "3", "d">>, <<"9", "f", "8", "e", "7", "d">> }

\* provider.NewSubscription: an unknown provider or dataset is an error, and
\* the subscribe command ends with log.Fatal; otherwise the subscription is
\* built, without its Dataset, and ComputeTableNames is called
NamesNewSubscription ==
    /\ calc.pc = "idle"
    /\ Cardinality(calc.saved) < MaxSubscriptions
    /\ \E request \in Requests, id \in UUIDs \ { s.ID : s \in calc.saved } :
          LET known == { c \in Catalog : c.Provider = request.Provider
                                           /\ c.Dataset = request.Dataset }
          IN  IF known = {}
              THEN calc' = [calc EXCEPT !.ret = "fatal"]
              ELSE LET dataset == CHOOSE c \in known : TRUE
                       subscription == [NoSub EXCEPT !.ID = id,
                                                     !.Provider = request.Provider,
                                                     !.DataTypes = dataset.DataTypes]
                   IN  calc' = [calc EXCEPT
                                  !.pc = "new", !.ret = "", !.request = request,
                                  !.sub = [subscription EXCEPT
                                             !.DataTables = DataTablesOf(subscription)]]

\* subscribeCmd.Run after NewSubscription: subscription.Dataset = subDataset
NamesSetDataset ==
    /\ calc.pc = "new"
    /\ calc' = [calc EXCEPT !.pc = "confirmed", !.sub.Dataset = calc.request.Dataset]

\* Subscription.Save: createTables fails on a table that exists, and nothing is
\* saved; otherwise the tables and the row of the subscription are committed
NamesSave ==
    /\ calc.pc = "confirmed"
    /\ IF SeqToSet(calc.sub.DataTables) \cap calc.tables # {}
       THEN calc' = [calc EXCEPT !.pc = "idle", !.ret = "fatal", !.sub = NoSub]
       ELSE calc' = [calc EXCEPT !.pc = "idle", !.ret = "saved", !.sub = NoSub,
                                 !.saved = @ \cup {calc.sub},
                                 !.tables = @ \cup SeqToSet(calc.sub.DataTables)]

NextNames ==
    \/ NamesNewSubscription /\ UNCHANGED notCalcVars
    \/ NamesSetDataset /\ UNCHANGED notCalcVars
    \/ NamesSave /\ UNCHANGED notCalcVars

InitNamesVars ==
    calc = [fn |-> "subscribe", pc |-> "idle", ret |-> "", request |-> <<>>, sub |-> NoSub,
            saved |-> {}, tables |-> {}]

(***************************************************************************)
(* Claims about the names of the data tables (SpecNames)                   *)
(***************************************************************************)
\* the four parts of the name of the table of a data type of a subscription
NameParts(s, i) == <<s.Provider, s.Dataset, s.DataTypes[i], IDPrefix(s.ID)>>

\* C25: every table name of a saved subscription is the slug of its provider,
\* its dataset, the data type and the first five characters of its ID, and two
\* tables of saved subscriptions that differ in one of the four have different
\* names.
C25_TableNameOfFourParts ==
    /\ \A s \in calc.saved : s.DataTables = DataTablesOf(s)
    /\ \A s, t \in calc.saved :
          \A i \in 1..Len(s.DataTypes), j \in 1..Len(t.DataTypes) :
             NameParts(s, i) # NameParts(t, j) => s.DataTables[i] # t.DataTables[j]

(***************************************************************************)
(* The rate limiter of a Fetch (provider/polygon.go, provider/tiingo.go)   *)
(***************************************************************************)
DigitChars == <<"0", "1", "2", "3", "4", "5", "6", "7", "8", "9">>

DigitValue(c) == (CHOOSE i \in 1..10 : DigitChars[i] = c) - 1

RECURSIVE DecimalValue(_)
DecimalValue(digits) ==
    IF digits = <<>> THEN 0
    ELSE 10 * DecimalValue(SubSeq(digits, 1, Len(digits) - 1)) + DigitValue(digits[Len(digits)])

\* the digits of the text of strconv.Atoi, after its sign
Unsigned(text) == IF text # <<>> /\ text[1] \in {"+", "-"} THEN Tail(text) ELSE text

\* strconv.Atoi(text) returns no error: a sign or none, then digits, at least one
AtoiOk(text) ==
    /\ Unsigned(text) # <<>>
    /\ \A i \in 1..Len(Unsigned(text)) : Unsigned(text)[i] \in Digits

\* the integer strconv.Atoi returns
Atoi(text) ==
    IF text[1] = "-" THEN 0 - DecimalValue(Unsigned(text)) ELSE DecimalValue(Unsigned(text))

\* "if rateLimit <= 0 { rateLimit = 5000 }"
DefaultRateLimit == 5000

\* rate.Limit(float64(rateLimit)/float64(61)): requests per second, as a fraction
PerSecond(rateLimit) == [num |-> rateLimit, den |-> 61]

\* the Fetch up to rate.NewLimiter: an error of strconv.Atoi returns, and the
\* deferred function sends the summary
LimiterAtoi ==
    /\ calc.fn = "limiter"
    /\ calc.pc = "start"
    /\ calc' = IF AtoiOk(calc.config)
               THEN [calc EXCEPT !.pc = "parsed", !.rateLimit = Atoi(calc.config)]
               ELSE [calc EXCEPT !.pc = "returned"]

LimiterNew ==
    /\ calc.fn = "limiter"
    /\ calc.pc = "parsed"
    /\ LET rateLimit == IF calc.rateLimit <= 0 THEN DefaultRateLimit ELSE calc.rateLimit
       IN  calc' = [calc EXCEPT !.pc = "fetching", !.rateLimit = rateLimit,
                                !.limiter = {[limit |-> PerSecond(rateLimit), burst |-> 1]}]

NextLimiter ==
    \/ LimiterAtoi /\ UNCHANGED notCalcVars
    \/ LimiterNew /\ UNCHANGED notCalcVars

\* subscription.Config["rateLimit"]: the empty string when the key is not set
ConfigChars == {"-", "0", "1", "6", "x"}

ConfigTexts == UNION { [1..n -> ConfigChars] : n \in 0..MaxConfigLen }

InitLimiterVars ==
    \E text \in ConfigTexts :
       calc = [fn |-> "limiter", pc |-> "start", config |-> text, rateLimit |-> 0,
               limiter |-> {}]

(***************************************************************************)
(* Claims about the rate limiter (SpecLimiter)                             *)
(***************************************************************************)
\* the Fetch is past the statements that make its limiter, or has returned
LimiterSettled == calc.pc \in {"fetching", "returned"}

\* C26: when rateLimit is a positive integer the Fetch goes on with a limiter
\* of rateLimit/61 requests per second, and when rateLimit is not set or not
\* positive it goes on with a limiter of the default rate.
C26_LimiterRate ==
    LimiterSettled =>
       /\ (AtoiOk(calc.config) /\ Atoi(calc.config) > 0) =>
             (calc.pc = "fetching"
                 /\ \A l \in calc.limiter : l.limit = PerSecond(Atoi(calc.config)))
       /\ (calc.config = <<>> \/ (AtoiOk(calc.config) /\ Atoi(calc.config) <= 0)) =>
             (calc.pc = "fetching"
                 /\ \A l \in calc.limiter : l.limit = PerSecond(DefaultRateLimit))

(***************************************************************************)
(* Specifications: each part of the program runs with the others idle      *)
(***************************************************************************)
IdleLifecycle ==
    /\ year = FirstYear
    /\ sub = [DataTypes |-> <<AssetKey>>, DataTables |-> ComputeTableNames(<<AssetKey>>),
              HealthCheckID |-> ""]
    /\ db = EmptyDB
    /\ tx = NoTx
    /\ op = "none"
    /\ pc = "done"
    /\ idx = 0
    /\ monitor = "none"
    /\ ret = "none"
    /\ hist = NoHist
    /\ partYear = 0
    /\ leftover = FALSE

\* run.go before "go myLibrary.SaveObservations(outChan, &wg)"
IdleSink ==
    /\ outChan = <<>>
    /\ closed = FALSE
    /\ sinkPc = "start"
    /\ subscriptions = {}
    /\ tables = EmptyTables
    /\ applied = <<>>
    /\ pushed = <<>>
    /\ received = <<>>

\* no run command
IdleRun ==
    /\ args = <<>>
    /\ runPc = "none"
    /\ fetch = NoFetch
    /\ exitChan = <<>>
    /\ fetches = <<>>
    /\ blockedSeen = FALSE

\* the command lines of the run command: one or two IDs, known or not
CommandLines ==
    LET ids == { s.ID : s \in Runnable } \cup {"no-such-subscription"}
    IN  { <<a>> : a \in ids } \cup { <<a, b>> : a \in ids, b \in ids }

\* api.delistedAssets is not running
IdleRecon ==
    /\ recon = NoRecon
    /\ fetched = {}
    /\ listing = <<>>
    /\ now = Today

\* api.filterAssetsByLastUpdated is not running
IdleFilter == filter = NoFilter

\* no Fetch is walking through pages
IdleWalk ==
    /\ walk = NoWalk
    /\ server = [pages |-> 1, endless |-> FALSE]
    /\ cancelled = FALSE

\* no response is being read
IdlePage == page = NoPage

\* nothing is being computed
IdleCalc == calc = NoCalc

InitSink == IdleLifecycle /\ IdleSink /\ IdleRun /\ IdleRecon /\ IdleFilter /\ IdleWalk /\ IdlePage /\ IdleCalc

InitLifecycle == NewSubscription /\ IdleSink /\ IdleRun /\ IdleRecon /\ IdleFilter /\ IdleWalk /\ IdlePage /\ IdleCalc

\* runCmd.Run has made the channels and started SaveObservations
InitRun ==
    /\ IdleLifecycle
    /\ IdleSink
    /\ args \in CommandLines
    /\ runPc = "load"
    /\ fetch = NoFetch
    /\ exitChan = <<>>
    /\ fetches = <<>>
    /\ blockedSeen = FALSE
    /\ IdleRecon
    /\ IdleFilter
    /\ IdleWalk /\ IdlePage /\ IdleCalc

InitRecon == IdleLifecycle /\ IdleRun /\ InitReconVars /\ IdleFilter /\ IdleWalk /\ IdlePage /\ IdleCalc

InitFilter == IdleLifecycle /\ IdleRun /\ IdleRecon /\ InitFilterVars /\ IdleWalk /\ IdlePage /\ IdleCalc

SpecLifecycle == InitLifecycle /\ [][NextLifecycle]_vars

SpecSink == InitSink /\ [][NextSink]_vars

SpecRun == InitRun /\ [][NextRun]_vars

\* the run command under the scheduling of Go: a goroutine that can take a step
\* is not left waiting for ever
SpecRunLive == InitRun /\ [][NextRun]_vars /\ WF_vars(NextRun)

SpecRecon == InitRecon /\ [][NextRecon]_vars

InitWalk == IdleLifecycle /\ IdleSink /\ IdleRun /\ IdleRecon /\ IdleFilter /\ InitWalkVars /\ IdlePage /\ IdleCalc

SpecFilter == InitFilter /\ [][NextFilter]_vars

SpecWalk == InitWalk /\ [][NextWalk]_vars

InitPage ==
    IdleLifecycle /\ IdleSink /\ IdleRun /\ IdleRecon /\ IdleFilter /\ IdleWalk /\ InitPageVars /\ IdleCalc

SpecPage == InitPage /\ [][NextPage]_vars

InitNames ==
    IdleLifecycle /\ IdleSink /\ IdleRun /\ IdleRecon /\ IdleFilter /\ IdleWalk /\ IdlePage /\ InitNamesVars

SpecNames == InitNames /\ [][NextNames]_vars

InitLimiter ==
    IdleLifecycle /\ IdleSink /\ IdleRun /\ IdleRecon /\ IdleFilter /\ IdleWalk /\ IdlePage /\ InitLimiterVars

SpecLimiter == InitLimiter /\ [][NextLimiter]_vars

====
